---------------------------- MODULE Spec2Model ----------------------------
(***************************************************************************)
(* BudgetHelper: the row-layout engine (formulaGenerator.js), the sheet    *)
(* payload it writes, and the sheet reconstruction engine (sheetParser.js) *)
(* that reads a sheet back into the budget document.                       *)
(*                                                                         *)
(* Representation of JavaScript values                                     *)
(*   string      a sequence of tokens (each token a fixed substring);      *)
(*               "" is << >>, " " is the whitespace token                  *)
(*   number      an integer count of units of 0.0005, so the parser's      *)
(*               tolerance 0.001 is two units                              *)
(*   null        << >> where a value or null is expected (Some(x) = <<x>>) *)
(*   object      a record; an item also carries keys, the order of its own *)
(*               properties, which JSON.stringify follows                  *)
(*   sheet cell  [t, n, s, f]: a number, a string, a formula string (its   *)
(*               tokens in f) or undefined (a cell beyond the row's end)   *)
(***************************************************************************)
EXTENDS Integers, Sequences, FiniteSets, TLC

VARIABLES
    budget,      \* the budget document handed to the core (the input object)
    layout,      \* result of the last buildRowLayout(budget), or NoResult
    sheetRows,   \* the grid as the values API returns it (row 1 = index 1)
    sheetKind,   \* how the grid was produced: "none", "payload", a legacy layout
    edits,       \* number of manual edits made to the grid since it was written
    pull,        \* result of the last parseSheetData call, or NoResult
    modal,       \* state of the GoogleSyncModal component, the sync in flight
    history      \* the past and future stacks of useUndoReducer; budget is present

vars == <<budget, layout, sheetRows, sheetKind, edits, pull, modal, history>>

(***************************************************************************)
(* Bounds of the model                                                     *)
(***************************************************************************)
MaxSections == 2
MaxItems == 2
MaxEdits == 1

(***************************************************************************)
(* Program constants                                                       *)
(***************************************************************************)
COL_LABEL == 0
COL_JAN == 1
COL_DEC == 12
COL_ANNUAL == 13
COL_AVG == 14
COL_NOTES == 15
COL_META == 16
NumMonths == 12
\* amounts are counted in units of 0.0005, so that a difference of one unit
\* lies strictly inside the tolerance of 0.001 (sheetParser.js line 470)
Epsilon == 2
SECTION_MARKER_PREFIX == "__BH_SECTION__:"
TOTAL_MARKER_PREFIX == "__BH_TOTAL__:"

None == << >>
Some(x) == <<x>>
NoResult == [phase |-> "none"]

\* body(v) with v evaluated once: TLC evaluates a LET definition again at
\* every place that uses it
WithValue(v, body(_)) == CHOOSE r \in {body(x) : x \in {v}} : TRUE

\* the first element of seq that satisfies ok, as an option
FindFirst(seq, ok(_)) ==
    WithValue({i \in 1..Len(seq) : ok(seq[i])},
       LAMBDA hits : IF hits = {} THEN None
                     ELSE Some(seq[CHOOSE i \in hits : \A j \in hits : i <= j]))
\* the last element of seq that satisfies ok, as an option
FindLast(seq, ok(_)) ==
    WithValue({i \in 1..Len(seq) : ok(seq[i])},
       LAMBDA hits : IF hits = {} THEN None
                     ELSE Some(seq[CHOOSE i \in hits : \A j \in hits : i >= j]))

(***************************************************************************)
(* buildRowLayout (formulaGenerator.js)                                    *)
(***************************************************************************)
Entry(type, row) ==
    [type |-> type, rowIndex |-> row, sec |-> 0, item |-> 0,
     linkedItemRow |-> 0, linkedItemName |-> << >>,
     itemStartRow |-> 0, itemEndRow |-> 0, itemRowEntries |-> << >>,
     autoRowIndex |-> None, remainingRow |-> 0]

RECURSIVE FirstLinkInItems(_, _, _)
\* the inner loop over s.items: the first item whose savingsLink === sectionId
FirstLinkInItems(items, sectionId, i) ==
    IF i > Len(items) THEN None
    ELSE IF items[i].savingsLink = Some(sectionId) THEN Some(items[i])
    ELSE FirstLinkInItems(items, sectionId, i + 1)

RECURSIVE FindLinkedItemAnySection(_, _, _)
\* mutant: the type filter of line 113 dropped, so that an item of a savings
\* section can be taken for the linked item
FindLinkedItemAnySection(sections, sectionId, k) ==
    IF k > Len(sections) THEN None
    ELSE LET hit == FirstLinkInItems(sections[k].items, sectionId, 1)
         IN IF hit # None THEN hit
            ELSE FindLinkedItemAnySection(sections, sectionId, k + 1)

RECURSIVE FindLinkedItem(_, _, _)
\* the outer loop over budget.sections: income and expense sections only,
\* stopping at the first section that holds a linking item
FindLinkedItem(sections, sectionId, k) ==
    IF k > Len(sections) THEN None
    ELSE IF sections[k].type # "expense" /\ sections[k].type # "income"
         THEN FindLinkedItem(sections, sectionId, k + 1)
    ELSE LET hit == FirstLinkInItems(sections[k].items, sectionId, 1)
         IN IF hit # None THEN hit
            ELSE FindLinkedItem(sections, sectionId, k + 1)

\* itemRowMap is a JavaScript object: assigning an existing key overwrites it
MapPut(map, key, val) == (key :> val) @@ map
MapHas(map, key) == key \in DOMAIN map
EmptyMap == [x \in {} |-> 0]

LayoutStart ==
    [rowLayout |-> <<Entry("header", 1)>>, row |-> 2,
     incomeTotalRows |-> << >>, expenseTotalRows |-> << >>,
     savingsTotalRows |-> << >>, itemRowMap |-> EmptyMap]

\* lines 62-96 without the separator push of lines 93-94
SummaryRowsNoSeparator(acc, k) ==
    LET r == acc.row
    IN [acc EXCEPT
          !.rowLayout = @ \o
             << [Entry("expense-grand-total", r) EXCEPT !.sec = k],
                [Entry("savings-grand-total", r + 1) EXCEPT !.sec = k],
                [Entry("remaining", r + 2) EXCEPT !.sec = k],
                [Entry("running-balance", r + 3) EXCEPT !.sec = k,
                                                      !.remainingRow = r + 2] >>,
          !.row = r + 4]

\* lines 62-96: the summary section's rollup rows
SummaryRows(acc, k) ==
    LET r == acc.row
    IN [acc EXCEPT
          !.rowLayout = @ \o
             << [Entry("expense-grand-total", r) EXCEPT !.sec = k],
                [Entry("savings-grand-total", r + 1) EXCEPT !.sec = k],
                [Entry("remaining", r + 2) EXCEPT !.sec = k],
                [Entry("running-balance", r + 3) EXCEPT !.sec = k,
                                                      !.remainingRow = r + 2],
                Entry("separator", r + 4) >>,
          !.row = r + 5]

\* lines 106-134 without the row++ of line 133
AutoRowSharesRow(acc, sections, k) ==
    LET section == sections[k]
        linked == IF section.type = "savings"
                  THEN FindLinkedItem(sections, section.id, 1) ELSE None
    IN IF linked # None /\ MapHas(acc.itemRowMap, linked[1].id)
       THEN [acc EXCEPT
               !.rowLayout = Append(@,
                  [Entry("savings-auto", acc.row) EXCEPT
                      !.sec = k,
                      !.linkedItemRow = acc.itemRowMap[linked[1].id],
                      !.linkedItemName = linked[1].name])]
       ELSE acc

\* lines 106-134: the savings auto-row, when the linked item already has a row
AutoRow(acc, sections, k) ==
    LET section == sections[k]
        linked == IF section.type = "savings"
                  THEN FindLinkedItem(sections, section.id, 1) ELSE None
    IN IF linked # None /\ MapHas(acc.itemRowMap, linked[1].id)
       THEN [acc EXCEPT
               !.rowLayout = Append(@,
                  [Entry("savings-auto", acc.row) EXCEPT
                      !.sec = k,
                      !.linkedItemRow = acc.itemRowMap[linked[1].id],
                      !.linkedItemName = linked[1].name]),
               !.row = @ + 1]
       ELSE acc

RECURSIVE ItemRowsMapAfterAdvance(_, _, _, _)
\* lines 139-150 with row++ moved before the itemRowMap assignment
ItemRowsMapAfterAdvance(acc, sections, k, i) ==
    IF i > Len(sections[k].items) THEN acc
    ELSE ItemRowsMapAfterAdvance(
           [acc EXCEPT
              !.rowLayout = Append(@, [Entry("item", acc.row) EXCEPT
                                          !.sec = k, !.item = i]),
              !.itemRowMap = MapPut(@, sections[k].items[i].id, acc.row + 1),
              !.row = @ + 1],
           sections, k, i + 1)

RECURSIVE ItemRows(_, _, _, _)
\* lines 139-150: one item entry per item, recorded in itemRowMap
ItemRows(acc, sections, k, i) ==
    IF i > Len(sections[k].items) THEN acc
    ELSE ItemRows(
           [acc EXCEPT
              !.rowLayout = Append(@, [Entry("item", acc.row) EXCEPT
                                          !.sec = k, !.item = i]),
              !.itemRowMap = MapPut(@, sections[k].items[i].id, acc.row),
              !.row = @ + 1],
           sections, k, i + 1)

\* mutant: a savings total also counted as an expense total
PushTotalRowSavingsAsExpense(acc, type, totalRow) ==
    [acc EXCEPT
       !.incomeTotalRows = IF type = "income" THEN Append(@, totalRow) ELSE @,
       !.expenseTotalRows = IF type \in {"expense", "savings"}
                            THEN Append(@, totalRow) ELSE @,
       !.savingsTotalRows = IF type = "savings" THEN Append(@, totalRow) ELSE @]

\* lines 168-170 and 186-188: the total row joins the list of its section type
PushTotalRow(acc, type, totalRow) ==
    [acc EXCEPT
       !.incomeTotalRows = IF type = "income" THEN Append(@, totalRow) ELSE @,
       !.expenseTotalRows = IF type = "expense" THEN Append(@, totalRow) ELSE @,
       !.savingsTotalRows = IF type = "savings" THEN Append(@, totalRow) ELSE @]

\* lines 154-189: the total row of a section
TotalRow(acc, sections, k, autoRowIndex, itemStartRow) ==
    LET section == sections[k]
        n == Len(section.items)
        itemEndRow == acc.row - 1
        totalRow == acc.row
    IN IF section.showTotal /\ (n > 0 \/ autoRowIndex # None)
       THEN PushTotalRow(
              [acc EXCEPT
                 !.rowLayout = Append(@, [Entry("total", totalRow) EXCEPT
                    !.sec = k,
                    !.itemStartRow = itemStartRow,
                    !.itemEndRow = itemEndRow,
                    !.itemRowEntries =
                        [i \in 1..n |-> [rowIndex |-> itemStartRow + i - 1,
                                         item |-> i]],
                    !.autoRowIndex = autoRowIndex]),
                 !.row = @ + 1],
              section.type, totalRow)
       ELSE IF section.showTotal /\ n = 0
       THEN PushTotalRow(
              [acc EXCEPT
                 !.rowLayout = Append(@, [Entry("total", totalRow) EXCEPT
                    !.sec = k,
                    !.itemStartRow = totalRow,
                    !.itemEndRow = totalRow - 1]),
                 !.row = @ + 1],
              section.type, totalRow)
       ELSE acc

\* lines 98-193: one non-summary section
SectionRows(acc, sections, k) ==
    LET a1 == [acc EXCEPT
                 !.rowLayout = Append(@, [Entry("section-header", acc.row)
                                             EXCEPT !.sec = k]),
                 !.row = @ + 1]
        a2 == AutoRow(a1, sections, k)
        autoRowIndex == IF a2.row > a1.row THEN Some(a1.row) ELSE None
        itemStartRow == a2.row
        a3 == ItemRows(a2, sections, k, 1)
        a4 == TotalRow(a3, sections, k, autoRowIndex, itemStartRow)
    IN [a4 EXCEPT !.rowLayout = Append(@, Entry("separator", a4.row)),
                  !.row = @ + 1]

RECURSIVE LayoutLoop(_, _, _)
LayoutLoop(acc, sections, k) ==
    IF k > Len(sections) THEN acc
    ELSE LayoutLoop(
           IF sections[k].type = "summary" THEN SummaryRows(acc, k)
           ELSE SectionRows(acc, sections, k),
           sections, k + 1)

buildRowLayout(b) ==
    LET acc == LayoutLoop(LayoutStart, b.sections, 1)
    IN [phase |-> "layout",
        rowLayout |-> acc.rowLayout,
        incomeTotalRows |-> acc.incomeTotalRows,
        expenseTotalRows |-> acc.expenseTotalRows,
        savingsTotalRows |-> acc.savingsTotalRows,
        itemRowMap |-> acc.itemRowMap]


(***************************************************************************)
(* Strings and sheet cells                                                 *)
(***************************************************************************)
SP == " "
ARROW == "<-"          \* the arrow glyph U+2190 that starts an auto-row label
NUMSTR == "<digits>"   \* String(n) of a number n: some non-empty text

Num(n) == [t |-> "num", n |-> n, s |-> << >>, f |-> << >>]
Str(s) == [t |-> "str", n |-> 0, s |-> s, f |-> << >>]
Formula(f) == [t |-> "formula", n |-> 0, s |-> << >>, f |-> f]
Undef == [t |-> "undef", n |-> 0, s |-> << >>, f |-> << >>]
Blank == Str(<< >>)

\* the tokens of a formula text (the leading "=" is implied by Formula)
Ref(col, row) == [k |-> "ref", c |-> col, r |-> row, n |-> 0]
Lit(n) == [k |-> "num", c |-> 0, r |-> 0, n |-> n]
Op(o) == [k |-> o, c |-> 0, r |-> 0, n |-> 0]

RECURSIVE JoinWith(_, _)
\* parts.join(sep) of a list of token lists
JoinWith(parts, sep) ==
    IF parts = << >> THEN << >>
    ELSE IF Len(parts) = 1 THEN parts[1]
    ELSE parts[1] \o <<sep>> \o JoinWith(Tail(parts), sep)

(***************************************************************************)
(* generateSheetsPayload (formulaGenerator.js): the value pass             *)
(***************************************************************************)
MonthCols == COL_JAN..COL_DEC
\* `=SUM(B{r}:M{r})` and `=N{r}/12`
AnnualCell(r) ==
    Formula(<<Op("SUM("), Ref(COL_JAN, r), Op(":"), Ref(COL_DEC, r), Op(")")>>)
AvgCell(r) == Formula(<<Ref(COL_ANNUAL, r), Op("/"), Lit(12)>>)

\* a row of 17 cells: label, twelve months, annual, average, notes, metadata
SheetRow(label, month(_), annual, avg, note, meta) ==
    <<label>> \o [c \in MonthCols |-> month(c)] \o <<annual, avg, note, meta>>

HeaderValues ==
    SheetRow(Blank, LAMBDA c : Str(<<"Month", ToString(c)>>), Str(<<"Total">>),
             Str(<<"Gns./maaned">>), Str(<<"Noter">>), Blank)

\* lines 224-250
ItemValues(b, lay, entry) ==
    LET r == entry.rowIndex
        section == b.sections[entry.sec]
        item == section.items[entry.item]
    IN WithValue(
          IF section.type = "savings" /\ item.savingsPercentage # None
          THEN FindFirst(lay.rowLayout,
                  LAMBDA e : e.type = "savings-auto"
                             /\ b.sections[e.sec].id = section.id)
          ELSE None,
          LAMBDA autoEntry :
             SheetRow(Str(item.name),
                LAMBDA c : IF autoEntry # None
                           THEN Formula(<<Ref(c, autoEntry[1].rowIndex), Op("*"),
                                          Lit(item.savingsPercentage[1]),
                                          Op("/100")>>)
                           ELSE Num(item.monthlyValues[c - COL_JAN + 1]),
                AnnualCell(r), AvgCell(r), Str(item.note), Blank))

\* lines 252-263
SectionHeaderValues(b, entry) ==
    LET section == b.sections[entry.sec]
    IN SheetRow(Str(section.name), LAMBDA c : Blank, Blank, Blank, Blank,
                Str(<<SECTION_MARKER_PREFIX, section.id, ":", section.type>>))

\* lines 265-283
SavingsAutoValues(entry) ==
    SheetRow(Str(<<ARROW, SP>> \o entry.linkedItemName),
             LAMBDA c : Formula(<<Ref(c, entry.linkedItemRow)>>),
             AnnualCell(entry.rowIndex), AvgCell(entry.rowIndex), Blank, Blank)

\* lines 306-311 and 320-328 without the filter on excluded
SignedPartsKeepExcluded(section, entry, c) ==
    LET included == entry.itemRowEntries
    IN [i \in 1..Len(included) |->
          IF section.items[included[i].item].negative
          THEN <<Op("-"), Ref(c, included[i].rowIndex)>>
          ELSE <<Ref(c, included[i].rowIndex)>>]

\* lines 306-311 and 320-328: the explicit signed references of the included
\* items, `-B4` for a negative item, joined with "+"
SignedParts(section, entry, c) ==
    LET included == SelectSeq(entry.itemRowEntries,
                       LAMBDA e : ~section.items[e.item].excluded)
    IN [i \in 1..Len(included) |->
          IF section.items[included[i].item].negative
          THEN <<Op("-"), Ref(c, included[i].rowIndex)>>
          ELSE <<Ref(c, included[i].rowIndex)>>]

\* lines 290-336: a month cell of a total row
TotalMonthCell(section, entry, c) ==
    LET hasSpecial == \E i \in 1..Len(entry.itemRowEntries) :
                         LET it == section.items[entry.itemRowEntries[i].item]
                         IN it.excluded \/ it.negative
        hasItems == entry.itemStartRow <= entry.itemEndRow
        hasAuto == entry.autoRowIndex # None
        sumRange == <<Op("SUM("), Ref(c, entry.itemStartRow), Op(":"),
                      Ref(c, entry.itemEndRow), Op(")")>>
        parts == SignedParts(section, entry, c)
    IN IF hasAuto /\ ~hasItems
       THEN Formula(<<Ref(c, entry.autoRowIndex[1])>>)
       ELSE IF hasAuto /\ hasItems /\ ~hasSpecial
       THEN Formula(<<Ref(c, entry.autoRowIndex[1]), Op("+")>> \o sumRange)
       ELSE IF hasAuto /\ hasItems /\ hasSpecial
       THEN Formula(JoinWith(<< <<Ref(c, entry.autoRowIndex[1])>> >> \o parts,
                             Op("+")))
       ELSE IF ~hasAuto /\ hasItems /\ ~hasSpecial
       THEN Formula(sumRange)
       ELSE IF ~hasAuto /\ hasItems /\ hasSpecial
       THEN IF parts = << >> THEN Num(0) ELSE Formula(JoinWith(parts, Op("+")))
       ELSE Num(0)

\* line 288: section.totalLabel || `Total ${section.name}`
TotalLabelOf(section) ==
    IF section.totalLabel # << >> THEN section.totalLabel
    ELSE <<"Total", SP>> \o section.name

\* lines 285-347
TotalValues(b, entry) ==
    LET section == b.sections[entry.sec]
    IN SheetRow(Str(TotalLabelOf(section)),
                LAMBDA c : TotalMonthCell(section, entry, c),
                AnnualCell(entry.rowIndex), AvgCell(entry.rowIndex), Blank,
                Str(<<TOTAL_MARKER_PREFIX, section.id>>))

RefsOf(rows, c) == JoinWith([i \in 1..Len(rows) |-> <<Ref(c, rows[i])>>], Op("+"))

\* lines 349-377 with && in place of || in the test of line 355
RemainingValuesBothNeeded(lay, entry) ==
    LET inc == lay.incomeTotalRows
        exp == lay.expenseTotalRows
    IN SheetRow(Str(<<"Tilbage">>),
                LAMBDA c :
                   IF inc # << >> /\ exp # << >>
                   THEN Formula(<<Op("(")>> \o RefsOf(inc, c)
                                \o <<Op(")"), Op("-"), Op("(")>>
                                \o RefsOf(exp, c) \o <<Op(")")>>)
                   ELSE Num(0),
                AnnualCell(entry.rowIndex), AvgCell(entry.rowIndex), Blank, Blank)

\* lines 349-377
RemainingValues(lay, entry) ==
    LET inc == lay.incomeTotalRows
        exp == lay.expenseTotalRows
    IN SheetRow(Str(<<"Tilbage">>),
                LAMBDA c :
                   IF inc # << >> \/ exp # << >>
                   THEN Formula(<<Op("(")>>
                                \o (IF inc # << >> THEN RefsOf(inc, c) ELSE <<Lit(0)>>)
                                \o <<Op(")"), Op("-"), Op("(")>>
                                \o (IF exp # << >> THEN RefsOf(exp, c) ELSE <<Lit(0)>>)
                                \o <<Op(")")>>)
                   ELSE Num(0),
                AnnualCell(entry.rowIndex), AvgCell(entry.rowIndex), Blank, Blank)

\* lines 379-397
GrandTotalValues(lay, entry) ==
    LET expense == entry.type = "expense-grand-total"
        sourceRows == IF expense THEN lay.expenseTotalRows
                      ELSE lay.savingsTotalRows
    IN SheetRow(Str(<<"Total", SP, IF expense THEN "expenses" ELSE "savings">>),
                LAMBDA c : IF sourceRows # << >>
                           THEN Formula(RefsOf(sourceRows, c)) ELSE Num(0),
                AnnualCell(entry.rowIndex), AvgCell(entry.rowIndex), Blank, Blank)

\* lines 399-420 with cellRef(r, col) in place of cellRef(r, col - 1)
RunningBalanceValuesSameColumn(entry) ==
    SheetRow(Str(<<"Lobende", SP, "saldo">>),
             LAMBDA c : IF c = COL_JAN
                        THEN Formula(<<Ref(COL_JAN, entry.remainingRow)>>)
                        ELSE Formula(<<Ref(c, entry.rowIndex), Op("+"),
                                       Ref(c, entry.remainingRow)>>),
             Blank, Blank, Blank, Blank)

\* lines 399-420
RunningBalanceValues(entry) ==
    SheetRow(Str(<<"Lobende", SP, "saldo">>),
             LAMBDA c : IF c = COL_JAN
                        THEN Formula(<<Ref(COL_JAN, entry.remainingRow)>>)
                        ELSE Formula(<<Ref(c - 1, entry.rowIndex), Op("+"),
                                       Ref(c, entry.remainingRow)>>),
             Blank, Blank, Blank, Blank)

\* the cells written for one rowLayout entry; a separator writes nothing
EntryValues(b, lay, entry) ==
    CASE entry.type = "header" -> HeaderValues
      [] entry.type = "item" -> ItemValues(b, lay, entry)
      [] entry.type = "section-header" -> SectionHeaderValues(b, entry)
      [] entry.type = "savings-auto" -> SavingsAutoValues(entry)
      [] entry.type = "total" -> TotalValues(b, entry)
      [] entry.type = "remaining" -> RemainingValues(lay, entry)
      [] entry.type \in {"expense-grand-total", "savings-grand-total"} ->
            GrandTotalValues(lay, entry)
      [] entry.type = "running-balance" -> RunningBalanceValues(entry)

\* lines 203-421: valueRanges, each the range A{row}:Q{row} with its cells
\* (the formatting requests of lines 423-587 carry no cell values)
generateSheetsPayload(b) ==
    WithValue(buildRowLayout(b),
       LAMBDA lay :
          WithValue(SelectSeq(lay.rowLayout, LAMBDA e : e.type # "separator"),
             LAMBDA written :
                [valueRanges |->
                    [i \in 1..Len(written) |->
                        [row |-> written[i].rowIndex,
                         values |-> EntryValues(b, lay, written[i])]]]))

(***************************************************************************)
(* sheetParser.js: reading cells                                           *)
(***************************************************************************)
\* sheetRows[rowIndex - 1]: None when the sheet has no such row
RowAt(rows, rowIndex) ==
    IF rowIndex \in 1..Len(rows) THEN Some(rows[rowIndex]) ELSE None
\* row?.[col]: undefined for a missing row and beyond the end of a short row
CellOf(rowOpt, col) ==
    IF rowOpt = None THEN Undef
    ELSE IF col + 1 > Len(rowOpt[1]) THEN Undef
    ELSE rowOpt[1][col + 1]

\* String(v ?? '')
ToStr(cell) ==
    CASE cell.t = "str" -> cell.s
      [] cell.t = "formula" -> <<"=formula">>
      [] cell.t = "num" -> <<NUMSTR>>
      [] OTHER -> << >>

RECURSIVE TrimStart(_)
TrimStart(s) == IF s # << >> /\ Head(s) = SP THEN TrimStart(Tail(s)) ELSE s
RECURSIVE TrimEnd(_)
TrimEnd(s) ==
    IF s # << >> /\ s[Len(s)] = SP THEN TrimEnd(SubSeq(s, 1, Len(s) - 1)) ELSE s
Trim(s) == TrimEnd(TrimStart(s))

\* Number(v) || 0: text that is no number (a formula, a label, '') gives 0
ToNumber(cell) == IF cell.t = "num" THEN cell.n ELSE 0

LowerTok(t) ==
    CASE t = "Total" -> "total"
      [] t = "TOTAL" -> "total"
      [] t = "I alt" -> "i alt"
      [] t = "Tilbage" -> "tilbage"
      [] t = "Remaining" -> "remaining"
      [] t = "Lobende" -> "lobende"
      [] t = "Running" -> "running"
      [] t = "Balance" -> "balance"
      [] t = "Savings" -> "savings"
      [] t = "Opsparing" -> "opsparing"
      [] t = "Income" -> "income"
      [] t = "Indkomst" -> "indkomst"
      [] OTHER -> t
Lower(s) == [i \in 1..Len(s) |-> LowerTok(s[i])]
\* a token that starts with a word character
IsWordTok(t) == t \notin {SP, ARROW, ":", "=formula"}

\* lines 22-24
rowLabel(rowOpt) == Trim(ToStr(CellOf(rowOpt, COL_LABEL)))
\* String(row?.[COL_NOTES] ?? '').trim()
rowNote(rowOpt) == Trim(ToStr(CellOf(rowOpt, COL_NOTES)))

\* lines 26-33
hasMonthData(rowOpt) ==
    \E m \in 0..(NumMonths - 1) :
       LET v == CellOf(rowOpt, COL_JAN + m)
       IN v.t = "num" \/ (v.t \in {"str", "formula"} /\ Trim(ToStr(v)) # << >>)

\* lines 35-38
matchesAnyLabel(rowOpt, labels) ==
    Lower(rowLabel(rowOpt)) \in {Lower(l) : l \in labels}

\* /^<arrow>/.test(label)
IsAutoLabel(label) == label # << >> /\ Head(label) = ARROW
\* /^(Total|I alt)\b/i.test(label), and with words = {"total"} /^Total\b/i
StartsWithWord(label, words) ==
    /\ label # << >>
    /\ LowerTok(Head(label)) \in words
    /\ (Len(label) = 1 \/ ~IsWordTok(label[2]))
\* /savings|opsparing/i.test(text)
ContainsWord(text, words) == \E i \in 1..Len(text) : LowerTok(text[i]) \in words

RECURSIVE Concat(_)
Concat(toks) == IF toks = << >> THEN "" ELSE Head(toks) \o Concat(Tail(toks))
\* the index of the first ":" token of toks, or Len(toks) + 1
RECURSIVE FirstColon(_, _)
FirstColon(toks, i) ==
    IF i > Len(toks) \/ toks[i] = ":" THEN i ELSE FirstColon(toks, i + 1)

\* the text before the first ":" of toks, and the tokens after it
SplitAtColon(toks) ==
    WithValue(FirstColon(toks, 1),
       LAMBDA c : [first |-> Concat(SubSeq(toks, 1, c - 1)),
                   rest |-> SubSeq(toks, c + 1, Len(toks))])

\* lines 44-51: null, or {id, type} with '' turned into null
parseSectionMarker(cell) ==
    WithValue(Trim(ToStr(cell)),
       LAMBDA raw :
          IF raw = << >> \/ Head(raw) # SECTION_MARKER_PREFIX THEN None
          ELSE IF Tail(raw) = << >> THEN None
          ELSE WithValue(SplitAtColon(Tail(raw)),
                  LAMBDA part :
                     WithValue(SplitAtColon(part.rest),
                        LAMBDA more :
                           Some([id |-> IF part.first = "" THEN None
                                        ELSE Some(part.first),
                                 type |-> IF more.first = "" THEN None
                                          ELSE Some(more.first)]))))

\* lines 53-58: null, or the section id of a total marker
parseTotalMarker(cell) ==
    WithValue(Trim(ToStr(cell)),
       LAMBDA raw :
          IF raw = << >> \/ Head(raw) # TOTAL_MARKER_PREFIX THEN None
          ELSE WithValue(Concat(Trim(Tail(raw))),
                  LAMBDA payload : IF payload = "" THEN None ELSE Some(payload)))

\* lines 60-62
getSectionMarkerMeta(rowOpt) ==
    WithValue(parseSectionMarker(CellOf(rowOpt, COL_META)),
       LAMBDA meta : IF meta # None THEN meta
                     ELSE parseSectionMarker(CellOf(rowOpt, COL_NOTES)))
\* lines 64-66
getTotalMarkerId(rowOpt) ==
    WithValue(parseTotalMarker(CellOf(rowOpt, COL_META)),
       LAMBDA id : IF id # None THEN id
                   ELSE parseTotalMarker(CellOf(rowOpt, COL_NOTES)))
\* lines 68-70
hasSectionMarker(rowOpt) == getSectionMarkerMeta(rowOpt) # None

\* the colours that /^#[0-9a-f]{6}$/ accepts, among those of the model
HexColors == {"#ffffff", "#0a1828", "#2560a0", "#2d8050"}
\* lines 72-76 (colorOpt: the row's background colour, None when not given)
normalizeHexColor(colorOpt, fallback) ==
    IF colorOpt # None /\ colorOpt[1] \in HexColors THEN colorOpt[1]
    ELSE fallback

\* lines 129, 166: the labels a mapped item row may not carry
ForbiddenLabels ==
    {<<"Tilbage">>, <<"Remaining">>, <<"Lobende", SP, "saldo">>,
     <<"Running", SP, "Balance">>, <<"Total", SP, "expenses">>,
     <<"Total", SP, "savings">>}

(***************************************************************************)
(* sheetParser.js: the item-row maps                                       *)
(***************************************************************************)
\* lines 83-123 without the auto-row of lines 93-110
CandidateSectionNoAutoRow(acc, sections, k, includeSectionHeaders, includeGrandTotals) ==
    LET section == sections[k]
        r1 == acc.row + (IF includeSectionHeaders THEN 1 ELSE 0)
        n == Len(section.items)
        ids == {section.items[i].id : i \in 1..n}
        lastOf(id) == CHOOSE i \in 1..n :
                         /\ section.items[i].id = id
                         /\ \A j \in (i + 1)..n : section.items[j].id # id
    IN IF section.type = "summary"
       THEN [acc EXCEPT !.row = @ + (IF includeGrandTotals THEN 2 ELSE 0) + 2 + 1]
       ELSE [row |-> r1 + n + (IF section.showTotal THEN 1 ELSE 0) + 1,
             map |-> [id \in ids \cup DOMAIN acc.map |->
                        IF id \in ids THEN r1 - 1 + lastOf(id)
                        ELSE acc.map[id]]]

\* lines 83-123: one section of the replayed layout; acc = [row, map]
CandidateSection(acc, sections, k, includeSectionHeaders, includeGrandTotals) ==
    LET section == sections[k]
        r1 == acc.row + (IF includeSectionHeaders THEN 1 ELSE 0)
        n == Len(section.items)
        \* a later item with the same id overwrites the earlier entry
        ids == {section.items[i].id : i \in 1..n}
        lastOf(id) == CHOOSE i \in 1..n :
                         /\ section.items[i].id = id
                         /\ \A j \in (i + 1)..n : section.items[j].id # id
    IN IF section.type = "summary"
       THEN [acc EXCEPT !.row = @ + (IF includeGrandTotals THEN 2 ELSE 0) + 2 + 1]
       ELSE WithValue(
              IF section.type = "savings"
              THEN WithValue(FindLinkedItem(sections, section.id, 1),
                      LAMBDA linked :
                         linked # None /\ MapHas(acc.map, linked[1].id))
              ELSE FALSE,
              LAMBDA hasAuto :
                 LET itemStart == r1 + (IF hasAuto THEN 1 ELSE 0)
                     itemEnd == itemStart + n - 1
                     r2 == itemStart + n
                     r3 == IF section.showTotal /\ (n > 0 \/ hasAuto) THEN r2 + 1
                           ELSE IF section.showTotal /\ itemStart > itemEnd
                           THEN r2 + 1
                           ELSE r2
                 IN [row |-> r3 + 1,
                     map |-> [id \in ids \cup DOMAIN acc.map |->
                                IF id \in ids THEN itemStart - 1 + lastOf(id)
                                ELSE acc.map[id]]])

RECURSIVE CandidateLoop(_, _, _, _, _)
CandidateLoop(acc, sections, k, hdr, grand) ==
    IF k > Len(sections) THEN acc
    ELSE WithValue(CandidateSection(acc, sections, k, hdr, grand),
            LAMBDA next : CandidateLoop(next, sections, k + 1, hdr, grand))

\* lines 78-126 (the itemRowMap of the candidate)
buildLayoutCandidate(b, includeSectionHeaders, includeGrandTotals) ==
    CandidateLoop([row |-> 2, map |-> EmptyMap], b.sections, 1,
                  includeSectionHeaders, includeGrandTotals).map

\* lines 131-139 and 170-177: a row that may be an item's row
IsPlausibleItemRow(rowOpt) ==
    WithValue(rowLabel(rowOpt),
       LAMBDA label :
          /\ label # << >>
          /\ ~hasSectionMarker(rowOpt)
          /\ Lower(label) \notin {Lower(l) : l \in ForbiddenLabels}
          /\ ~IsAutoLabel(label))

\* lines 128-142
candidateMatchesSheet(map, rows) ==
    \A id \in DOMAIN map :
       map[id] \in 1..Len(rows) /\ IsPlausibleItemRow(Some(rows[map[id]]))

\* lines 149-154: the candidates in the order they are tried
CandidateFlags ==
    << <<TRUE, TRUE>>, <<FALSE, TRUE>>, <<TRUE, FALSE>>, <<FALSE, FALSE>> >>

\* lines 144-163: the first matching candidate's map, or None (null)
pickExactItemRowMap(b, rows) ==
    IF Len(rows) = 0 THEN Some(buildLayoutCandidate(b, TRUE, TRUE))
    ELSE WithValue(
           [i \in 1..Len(CandidateFlags) |->
               buildLayoutCandidate(b, CandidateFlags[i][1], CandidateFlags[i][2])],
           LAMBDA cand :
              WithValue({i \in 1..Len(cand) : candidateMatchesSheet(cand[i], rows)},
                 LAMBDA ok :
                    IF ok = {} THEN None
                    ELSE Some(cand[CHOOSE i \in ok : \A j \in ok : i <= j])))

\* the items of the non-summary sections, in section and item order
RECURSIVE ItemsInOrder(_, _)
ItemsInOrder(sections, k) ==
    IF k > Len(sections) THEN << >>
    ELSE (IF sections[k].type = "summary" THEN << >>
          ELSE [i \in 1..Len(sections[k].items) |->
                   [sec |-> k, idx |-> i, item |-> sections[k].items[i]]])
         \o ItemsInOrder(sections, k + 1)

RECURSIVE NameMatchLoopNoClaim(_, _, _, _, _)
\* lines 179-193 without usedRows.add(rowIdx)
NameMatchLoopNoClaim(list, i, sections, rows, acc) ==
    IF i > Len(list) THEN acc.map
    ELSE LET item == list[i].item
             skip == item.savingsPercentage # None
                     /\ sections[list[i].sec].type = "savings"
         IN WithValue(
               IF skip THEN acc
               ELSE WithValue({r \in 1..Len(rows) :
                                  /\ rowLabel(Some(rows[r])) = item.name
                                  /\ IsPlausibleItemRow(Some(rows[r]))},
                       LAMBDA hits :
                          IF hits = {} THEN acc
                          ELSE WithValue(CHOOSE r \in hits : \A q \in hits : r <= q,
                                  LAMBDA r0 : [map |-> MapPut(acc.map, item.id, r0),
                                               used |-> acc.used])),
               LAMBDA next : NameMatchLoopNoClaim(list, i + 1, sections, rows, next))

RECURSIVE NameMatchLoop(_, _, _, _, _)
\* lines 179-193: each item takes the first unclaimed usable row of its name
NameMatchLoop(list, i, sections, rows, acc) ==
    IF i > Len(list) THEN acc.map
    ELSE LET item == list[i].item
             skip == item.savingsPercentage # None
                     /\ sections[list[i].sec].type = "savings"
         IN WithValue(
               IF skip THEN acc
               ELSE WithValue({r \in 1..Len(rows) :
                                  /\ r \notin acc.used
                                  /\ rowLabel(Some(rows[r])) = item.name
                                  /\ IsPlausibleItemRow(Some(rows[r]))},
                       LAMBDA hits :
                          IF hits = {} THEN acc
                          ELSE WithValue(CHOOSE r \in hits : \A q \in hits : r <= q,
                                  LAMBDA r0 : [map |-> MapPut(acc.map, item.id, r0),
                                               used |-> acc.used \cup {r0}])),
               LAMBDA next : NameMatchLoop(list, i + 1, sections, rows, next))

\* lines 165-196
buildNameMatchedRowMap(b, rows) ==
    WithValue(ItemsInOrder(b.sections, 1),
       LAMBDA list : NameMatchLoop(list, 1, b.sections, rows,
                                   [map |-> EmptyMap, used |-> {}]))

\* lines 216, 287
BoundaryLabels == ForbiddenLabels

\* lines 199-210 and 272-283: the rows that carry a section marker, in row
\* order, as {rowIndex, name, id, type}
MarkerRowsOf(rows) ==
    WithValue([r \in 1..Len(rows) |-> getSectionMarkerMeta(Some(rows[r]))],
       LAMBDA metas :
          WithValue(SelectSeq([r \in 1..Len(rows) |-> r],
                              LAMBDA r : metas[r] # None),
             LAMBDA idx :
                [i \in 1..Len(idx) |->
                    [rowIndex |-> idx[i], name |-> rowLabel(Some(rows[idx[i]])),
                     id |-> metas[idx[i]][1].id, type |-> metas[idx[i]][1].type]]))

\* lines 218-224
findMarker(markers, used, section) ==
    WithValue(FindFirst(markers, LAMBDA m : m.rowIndex \notin used
                                            /\ m.id = Some(section.id)),
       LAMBDA byId :
          IF byId # None THEN byId
          ELSE WithValue(FindFirst(markers, LAMBDA m : m.rowIndex \notin used
                                                       /\ m.name = section.name),
                  LAMBDA byName :
                     IF byName # None THEN byName
                     ELSE FindFirst(markers, LAMBDA m : m.rowIndex \notin used)))

RECURSIVE MarkerItemRow(_, _, _)
\* lines 242-264: the row taken by one item, from rowIndex on; the result is
\* [row: the item's row as an option, next: the row index afterwards]
MarkerItemRow(rows, rowIndex, sectionEndRow) ==
    IF rowIndex >= sectionEndRow THEN [row |-> None, next |-> rowIndex]
    ELSE LET row == RowAt(rows, rowIndex)
         IN WithValue(rowLabel(row),
               LAMBDA label :
                  IF label = << >> /\ ~hasMonthData(row)
                  THEN MarkerItemRow(rows, rowIndex + 1, sectionEndRow)
                  ELSE IF IsAutoLabel(label)
                  THEN MarkerItemRow(rows, rowIndex + 1, sectionEndRow)
                  ELSE IF hasSectionMarker(row)
                  THEN [row |-> None, next |-> sectionEndRow]
                  ELSE IF Lower(label) \in {Lower(l) : l \in BoundaryLabels}
                          \/ StartsWithWord(label, {"total"})
                  THEN [row |-> None, next |-> sectionEndRow]
                  ELSE [row |-> Some(rowIndex), next |-> rowIndex + 1])

RECURSIVE MarkerItems(_, _, _, _, _)
\* lines 241-265: acc = [next: the row index, map]
MarkerItems(rows, items, i, sectionEndRow, acc) ==
    IF i > Len(items) THEN acc.map
    ELSE WithValue(MarkerItemRow(rows, acc.next, sectionEndRow),
            LAMBDA step :
               MarkerItems(rows, items, i + 1, sectionEndRow,
                  [next |-> step.next,
                   map |-> IF step.row = None THEN acc.map
                           ELSE MapPut(acc.map, items[i].id, step.row[1])]))

\* lines 228-265 for a section that found its marker
MarkerSectionItems(rows, markers, section, marker, map) ==
    WithValue(FindFirst(markers, LAMBDA m : m.rowIndex > marker.rowIndex),
       LAMBDA nextMarker :
          LET sectionEndRow == IF nextMarker # None THEN nextMarker[1].rowIndex
                               ELSE Len(rows) + 1
              first == marker.rowIndex + 1
              start == IF section.type = "savings"
                          /\ IsAutoLabel(rowLabel(RowAt(rows, first)))
                       THEN first + 1 ELSE first
          IN MarkerItems(rows, section.items, 1, sectionEndRow,
                         [next |-> start, map |-> map]))

RECURSIVE MarkerMapLoop(_, _, _, _, _)
\* lines 226-266: acc = [used: the marker rows taken, map]
MarkerMapLoop(rows, markers, sections, k, acc) ==
    IF k > Len(sections) THEN acc.map
    ELSE WithValue(
            IF sections[k].type = "summary" THEN acc
            ELSE WithValue(findMarker(markers, acc.used, sections[k]),
                    LAMBDA marker :
                       IF marker = None THEN acc
                       ELSE [used |-> acc.used \cup {marker[1].rowIndex},
                             map |-> MarkerSectionItems(rows, markers, sections[k],
                                                        marker[1], acc.map)]),
            LAMBDA next : MarkerMapLoop(rows, markers, sections, k + 1, next))

\* lines 198-269: null without markers and when no item found a row
buildMarkerItemRowMap(b, rows) ==
    WithValue(MarkerRowsOf(rows),
       LAMBDA markers :
          IF markers = << >> THEN None
          ELSE WithValue(MarkerMapLoop(rows, markers, b.sections, 1,
                                       [used |-> {}, map |-> EmptyMap]),
                  LAMBDA map : IF DOMAIN map = {} THEN None ELSE Some(map)))

(***************************************************************************)
(* sheetParser.js: the rebuild from section markers                        *)
(***************************************************************************)
\* the property order of an item written by generateBudget (App.jsx 412-424)
\* and by the marker rebuild (sheetParser.js 348-358)
FullKeys ==
    <<"id", "name", "color", "note", "excluded", "negative", "savingsLink",
      "savingsPercentage", "monthlyValues">>
\* the properties of an item of createDefaultBudget and of ADD_ITEM
BaseKeys == <<"id", "name", "color", "note", "monthlyValues">>

Months == 1..NumMonths
\* the k-th identifier that uuidv4() returns during one call
Uuid(k) == "u" \o ToString(k)

\* !label && !note && !hasMonthData(row)
IsBlankRow(rowOpt) ==
    rowLabel(rowOpt) = << >> /\ rowNote(rowOpt) = << >> /\ ~hasMonthData(rowOpt)

\* lines 306-338 for the row at cursor: st with stop set when the loop ends
MarkerScanRow(rows, cursor, nextMarkerRow, marker, st) ==
    LET row == RowAt(rows, cursor)
        nextRow == IF cursor + 1 < nextMarkerRow
                   THEN RowAt(rows, cursor + 1) ELSE None
        nextIsBlank == IsBlankRow(nextRow)
        nextIsBoundary == \/ nextRow = None
                          \/ hasSectionMarker(nextRow)
                          \/ matchesAnyLabel(nextRow, BoundaryLabels)
    IN WithValue(rowLabel(row),
         LAMBDA label :
            IF IsBlankRow(row) THEN st
            ELSE IF IsAutoLabel(label)
            THEN WithValue(Trim(TrimStart(Tail(label))),
                    LAMBDA autoName :
                       [st EXCEPT !.sawAutoRow = TRUE,
                                  !.autoLinkedItemName =
                                      IF autoName = << >> THEN None
                                      ELSE Some(autoName)])
            ELSE IF Lower(label) \in {Lower(l) : l \in BoundaryLabels}
            THEN [st EXCEPT !.stop = TRUE]
            ELSE IF hasSectionMarker(row) THEN [st EXCEPT !.stop = TRUE]
            ELSE WithValue(getTotalMarkerId(row),
                    LAMBDA totalMarkerSectionId :
                       IF totalMarkerSectionId # None
                          /\ (marker.id = None \/ totalMarkerSectionId = marker.id)
                       THEN [st EXCEPT !.stop = TRUE,
                                       !.totalLabel = IF label # << >> THEN label
                                                      ELSE @]
                       ELSE IF StartsWithWord(label, {"total", "i alt"})
                               /\ (nextIsBlank \/ nextIsBoundary)
                       THEN [st EXCEPT !.stop = TRUE, !.totalLabel = label]
                       ELSE [st EXCEPT !.itemRows = Append(@, cursor)]))

RECURSIVE MarkerScan(_, _, _, _, _)
\* lines 305-339: the rows of one marker's section, from cursor on
MarkerScan(rows, cursor, nextMarkerRow, marker, st) ==
    IF cursor >= nextMarkerRow \/ st.stop THEN st
    ELSE WithValue(MarkerScanRow(rows, cursor, nextMarkerRow, marker, st),
            LAMBDA next : MarkerScan(rows, cursor + 1, nextMarkerRow, marker, next))

\* lines 344-358: the item of one row; existingItem is an option
RebuildItem(row, existingItem, freshId) ==
    LET found == existingItem # None
    IN [id |-> IF found THEN existingItem[1].id ELSE freshId,
        name |-> rowLabel(row),
        color |-> IF found THEN existingItem[1].color ELSE None,
        note |-> rowNote(row),
        excluded |-> IF found THEN existingItem[1].excluded ELSE FALSE,
        negative |-> IF found THEN existingItem[1].negative ELSE FALSE,
        savingsLink |-> IF found THEN existingItem[1].savingsLink ELSE None,
        savingsPercentage |-> IF found THEN existingItem[1].savingsPercentage
                              ELSE None,
        monthlyValues |->
            [m \in Months |-> ToNumber(CellOf(row, COL_JAN + m - 1))],
        keys |-> FullKeys]

RECURSIVE RebuildItems(_, _, _, _, _)
\* lines 343-359: acc = [items, used: the ids of the existing items taken,
\* uuids: the number of identifiers drawn so far]
RebuildItems(rows, itemRows, i, existingItems, acc) ==
    IF i > Len(itemRows) THEN acc
    ELSE WithValue(
            WithValue(rowLabel(RowAt(rows, itemRows[i])),
               LAMBDA name :
                  FindFirst(existingItems,
                     LAMBDA it : it.name = name /\ it.id \notin acc.used)),
            LAMBDA existingItem :
               WithValue(
                  [items |-> Append(acc.items,
                                RebuildItem(RowAt(rows, itemRows[i]), existingItem,
                                            Uuid(acc.uuids + 1))),
                   used |-> IF existingItem # None
                            THEN acc.used \cup {existingItem[1].id} ELSE acc.used,
                   uuids |-> IF existingItem # None THEN acc.uuids
                             ELSE acc.uuids + 1],
                  LAMBDA next :
                     RebuildItems(rows, itemRows, i + 1, existingItems, next)))

\* lines 361-366
RebuildType(marker, existingSection, sawAutoRow, totalLabel) ==
    IF marker.type # None THEN marker.type[1]
    ELSE IF existingSection # None THEN existingSection[1].type
    ELSE IF sawAutoRow \/ ContainsWord(marker.name, {"savings", "opsparing"})
    THEN "savings"
    ELSE IF ContainsWord(marker.name, {"income", "indkomst"})
            \/ ContainsWord(totalLabel, {"income", "indkomst"})
    THEN "income"
    ELSE "expense"

\* line 297; a Map built from the sections keeps the last one of each key
ExistingSection(b, marker) ==
    WithValue(SelectSeq(b.sections, LAMBDA x : x.type # "summary"),
       LAMBDA existingSections :
          WithValue(IF marker.id = None THEN None
                    ELSE FindLast(existingSections,
                                  LAMBDA x : x.id = marker.id[1]),
             LAMBDA byId :
                IF byId # None THEN byId
                ELSE FindLast(existingSections,
                              LAMBDA x : x.name = marker.name)))

\* lines 368-376; built = [items, used, uuids] of the section's rows
ParsedSection(marker, existingSection, scan, built, rowColors) ==
    [id |-> IF marker.id # None THEN marker.id[1]
            ELSE IF existingSection # None THEN existingSection[1].id
            ELSE Uuid(built.uuids + 1),
     name |-> IF marker.name # << >> THEN marker.name
              ELSE IF existingSection # None /\ existingSection[1].name # << >>
              THEN existingSection[1].name
              ELSE <<"Section">>,
     type |-> RebuildType(marker, existingSection, scan.sawAutoRow,
                          scan.totalLabel),
     color |-> normalizeHexColor(
                  IF rowColors # None /\ MapHas(rowColors[1], marker.rowIndex)
                  THEN Some(rowColors[1][marker.rowIndex]) ELSE None,
                  IF existingSection # None /\ existingSection[1].color # ""
                  THEN existingSection[1].color ELSE "#2560a0"),
     showTotal |-> TRUE,
     totalLabel |-> scan.totalLabel,
     items |-> built.items]

\* lines 295-380 for marker i: acc = [sections, hints, uuids]
RebuildSection(b, rows, rowColors, markerRows, i, acc) ==
    LET marker == markerRows[i]
        nextMarkerRow == IF i < Len(markerRows) THEN markerRows[i + 1].rowIndex
                         ELSE Len(rows) + 1
    IN WithValue(ExistingSection(b, marker),
        LAMBDA existingSection :
         WithValue(
            MarkerScan(rows, marker.rowIndex + 1, nextMarkerRow, marker,
               [sawAutoRow |-> FALSE, autoLinkedItemName |-> None,
                totalLabel |-> IF existingSection # None
                                  /\ existingSection[1].totalLabel # << >>
                               THEN existingSection[1].totalLabel
                               ELSE <<"Total", SP>> \o marker.name,
                itemRows |-> << >>, stop |-> FALSE]),
          LAMBDA scan :
           WithValue(
              RebuildItems(rows, scan.itemRows, 1,
                 IF existingSection # None THEN existingSection[1].items
                 ELSE << >>,
                 [items |-> << >>, used |-> {}, uuids |-> acc.uuids]),
            LAMBDA built :
             WithValue(ParsedSection(marker, existingSection, scan, built,
                                     rowColors),
              LAMBDA parsedSection :
                 [sections |-> Append(acc.sections, parsedSection),
                  hints |-> IF parsedSection.type = "savings"
                               /\ scan.autoLinkedItemName # None
                            THEN Append(acc.hints,
                                    [savingsSectionId |-> parsedSection.id,
                                     linkedItemName |->
                                         scan.autoLinkedItemName[1]])
                            ELSE acc.hints,
                  uuids |-> IF marker.id = None /\ existingSection = None
                            THEN built.uuids + 1 ELSE built.uuids]))))

RECURSIVE RebuildLoop(_, _, _, _, _, _)
\* lines 294-381
RebuildLoop(b, rows, rowColors, markerRows, i, acc) ==
    IF i > Len(markerRows) THEN acc
    ELSE WithValue(RebuildSection(b, rows, rowColors, markerRows, i, acc),
            LAMBDA next : RebuildLoop(b, rows, rowColors, markerRows, i + 1, next))

\* lines 383-392: every hint in turn links every income or expense item of
\* the hinted name, so the last hint of a name decides
ApplyHints(sections, hints) ==
    [k \in 1..Len(sections) |->
       IF sections[k].type \notin {"income", "expense"} THEN sections[k]
       ELSE [sections[k] EXCEPT !.items =
               [j \in 1..Len(sections[k].items) |->
                  WithValue(FindLast(hints,
                               LAMBDA h : h.linkedItemName
                                          = sections[k].items[j].name),
                     LAMBDA hint :
                        IF hint = None THEN sections[k].items[j]
                        ELSE [sections[k].items[j] EXCEPT
                                !.savingsLink = Some(hint[1].savingsSectionId)])]]]

\* lines 394-402
SummaryOf(b, freshId) ==
    WithValue(FindFirst(b.sections, LAMBDA x : x.type = "summary"),
       LAMBDA own :
          IF own # None THEN own[1]
          ELSE [id |-> freshId, name |-> <<"Summary">>, type |-> "summary",
                color |-> "#0a1828", showTotal |-> FALSE, totalLabel |-> << >>,
                items |-> << >>])

\* the rebuild gives way to the row maps when it found no item row
buildBudgetFromMarkersOrBypass(b, rows, rowColors) ==
    WithValue(MarkerRowsOf(rows),
       LAMBDA markerRows :
          IF markerRows = << >> THEN None
          ELSE WithValue(RebuildLoop(b, rows, rowColors, markerRows, 1,
                            [sections |-> << >>, hints |-> << >>, uuids |-> 0]),
                  LAMBDA acc :
                     IF \A k \in 1..Len(acc.sections) : acc.sections[k].items = << >>
                     THEN None
                     ELSE Some([b EXCEPT !.sections =
                             Append(ApplyHints(acc.sections, acc.hints),
                                    SummaryOf(b, Uuid(acc.uuids + 1)))])))

\* lines 271-405: null without section markers, otherwise the rebuilt budget
buildBudgetFromMarkers(b, rows, rowColors) ==
    WithValue(MarkerRowsOf(rows),
       LAMBDA markerRows :
          IF markerRows = << >> THEN None
          ELSE WithValue(RebuildLoop(b, rows, rowColors, markerRows, 1,
                            [sections |-> << >>, hints |-> << >>, uuids |-> 0]),
                  LAMBDA acc :
                     Some([b EXCEPT !.sections =
                             Append(ApplyHints(acc.sections, acc.hints),
                                    SummaryOf(b, Uuid(acc.uuids + 1)))])))

(***************************************************************************)
(* sheetParser.js: parseSheetData                                          *)
(***************************************************************************)
HasKey(item, key) == \E i \in 1..Len(item.keys) : item.keys[i] = key

\* JSON.stringify that writes the properties in one fixed order and a
\* missing property like its default
StringifyItemSorted(item) ==
    [keys |-> FullKeys,
     id |-> item.id, name |-> item.name, color |-> item.color,
     note |-> item.note, monthlyValues |-> item.monthlyValues,
     excluded |-> Some(item.excluded), negative |-> Some(item.negative),
     savingsLink |-> Some(item.savingsLink),
     savingsPercentage |-> Some(item.savingsPercentage)]
\* JSON.stringify of an item: its own properties in insertion order, each
\* with its value; a property the object lacks is not written
StringifyItem(item) ==
    [keys |-> item.keys,
     id |-> item.id, name |-> item.name, color |-> item.color,
     note |-> item.note, monthlyValues |-> item.monthlyValues,
     excluded |-> IF HasKey(item, "excluded") THEN Some(item.excluded) ELSE None,
     negative |-> IF HasKey(item, "negative") THEN Some(item.negative) ELSE None,
     savingsLink |-> IF HasKey(item, "savingsLink")
                     THEN Some(item.savingsLink) ELSE None,
     savingsPercentage |-> IF HasKey(item, "savingsPercentage")
                           THEN Some(item.savingsPercentage) ELSE None]
\* JSON.stringify(sections)
StringifySections(sections) ==
    [k \in 1..Len(sections) |->
        [sections[k] EXCEPT !.items = [j \in 1..Len(@) |-> StringifyItem(@[j])]]]
\* JSON.parse of a stringified item: a missing property reads as undefined
ParseItem(json) ==
    [keys |-> json.keys,
     id |-> json.id, name |-> json.name, color |-> json.color,
     note |-> json.note, monthlyValues |-> json.monthlyValues,
     excluded |-> IF json.excluded = None THEN FALSE ELSE json.excluded[1],
     negative |-> IF json.negative = None THEN FALSE ELSE json.negative[1],
     savingsLink |-> IF json.savingsLink = None THEN None
                     ELSE json.savingsLink[1],
     savingsPercentage |-> IF json.savingsPercentage = None THEN None
                           ELSE json.savingsPercentage[1]]
ParseSections(json) ==
    [k \in 1..Len(json) |->
        [json[k] EXCEPT !.items = [j \in 1..Len(@) |-> ParseItem(@[j])]]]

\* line 436 with a budget aliasing the input (`const updated = budget`)
DeepCloneAliased(b) == [obj |-> "input", val |-> b]
\* line 436: JSON.parse(JSON.stringify(budget)), a new object
DeepClone(b) ==
    [obj |-> "clone",
     val |-> [b EXCEPT !.sections = ParseSections(StringifySections(@))]]

\* a change record; the properties a record lacks are None
Change(type, sectionName, itemId, itemName, field, monthIndex, old, new) ==
    [type |-> type, sectionName |-> sectionName, itemId |-> itemId,
     itemName |-> itemName, field |-> field, monthIndex |-> monthIndex,
     oldValue |-> old, newValue |-> new]

\* lines 419-425
StructureChange ==
    Change("name", <<"Sheet", SP, "structure">>, "structure", None, None, None,
           Str(<<"Local", SP, "layout">>),
           Str(<<"Rebuilt", SP, "from", SP, "sheet", SP, "markers">>))

Abs(x) == IF x < 0 THEN -x ELSE x

\* line 447 with the guard left out
SkipMissingRowNever(rowOpt) == FALSE
\* line 447: if (!sheetRow) continue
SkipMissingRow(rowOpt) == rowOpt = None

\* line 470
ValueChanged(sheetVal, localVal) == Abs(sheetVal - localVal) > Epsilon

\* lines 467-483: the value changes of one row, in month order
MonthChanges(section, item, name, sheetVals) ==
    WithValue(SelectSeq([m \in Months |-> m],
                 LAMBDA m : ValueChanged(sheetVals[m], item.monthlyValues[m])),
       LAMBDA changed :
          [i \in 1..Len(changed) |->
             Change("value", section.name, item.id, Some(name),
                    Some("month_" \o ToString(changed[i] - 1)),
                    Some(changed[i] - 1),
                    Num(item.monthlyValues[changed[i]]),
                    Num(sheetVals[changed[i]]))])

\* lines 452-499: the item read from its row, and the changes noticed
ReadRow(section, item, row) ==
    LET sheetName == rowLabel(row)
        renamed == sheetName # << >> /\ sheetName # item.name
        name == IF renamed THEN sheetName ELSE item.name
        sheetNote == rowNote(row)
        localNote == Trim(item.note)
    IN WithValue([m \in Months |-> ToNumber(CellOf(row, COL_JAN + m - 1))],
         LAMBDA sheetVals :
            [item |-> [item EXCEPT
                         !.name = name,
                         !.monthlyValues = sheetVals,
                         !.note = IF sheetNote # localNote THEN sheetNote ELSE @],
             changes |->
                (IF renamed
                 THEN <<Change("name", section.name, item.id, None, Some("name"),
                               None, Str(item.name), Str(sheetName))>>
                 ELSE << >>)
                \o MonthChanges(section, item, name, sheetVals)
                \o (IF sheetNote # localNote
                    THEN <<Change("note", section.name, item.id, Some(name),
                                  Some("note"), None, Str(localNote),
                                  Str(sheetNote))>>
                    ELSE << >>),
             threw |-> FALSE])

\* lines 441-500 for one item: [item, changes, threw]
ReadItem(section, item, itemRowMap, rows) ==
    LET same == [item |-> item, changes |-> << >>, threw |-> FALSE]
    IN IF ~MapHas(itemRowMap, item.id) THEN same
       ELSE WithValue(RowAt(rows, itemRowMap[item.id]),
               LAMBDA sheetRow :
                  IF SkipMissingRow(sheetRow) THEN same
                  ELSE IF item.savingsPercentage # None
                          /\ section.type = "savings"
                  THEN same
                  \* sheetRow[COL_LABEL] of an undefined row raises a TypeError
                  ELSE IF sheetRow = None THEN [same EXCEPT !.threw = TRUE]
                  ELSE ReadRow(section, item, sheetRow))

RECURSIVE ReadItems(_, _, _, _, _)
\* lines 441-500: acc = [items, changes, threw]; an exception ends the call
ReadItems(section, j, itemRowMap, rows, acc) ==
    IF j > Len(section.items) \/ acc.threw THEN acc
    ELSE WithValue(ReadItem(section, section.items[j], itemRowMap, rows),
            LAMBDA r :
               WithValue([items |-> Append(acc.items, r.item),
                          changes |-> acc.changes \o r.changes,
                          threw |-> r.threw],
                  LAMBDA next :
                     ReadItems(section, j + 1, itemRowMap, rows, next)))

\* lines 438-501 for section k: acc = [sections, changes, threw]
ReadSection(sections, k, itemRowMap, rows, acc) ==
    IF sections[k].type = "summary"
    THEN [acc EXCEPT !.sections = Append(@, sections[k])]
    ELSE WithValue(ReadItems(sections[k], 1, itemRowMap, rows,
                      [items |-> << >>, changes |-> acc.changes,
                       threw |-> FALSE]),
            LAMBDA r :
               [sections |->
                   Append(acc.sections,
                      [sections[k] EXCEPT
                         !.items = r.items
                                   \o SubSeq(@, Len(r.items) + 1, Len(@))]),
                changes |-> r.changes,
                threw |-> r.threw])

RECURSIVE ReadSections(_, _, _, _, _)
\* lines 438-501
ReadSections(sections, k, itemRowMap, rows, acc) ==
    IF k > Len(sections) \/ acc.threw
    THEN [acc EXCEPT !.sections = @ \o SubSeq(sections, k, Len(sections))]
    ELSE WithValue(ReadSection(sections, k, itemRowMap, rows, acc),
            LAMBDA next : ReadSections(sections, k + 1, itemRowMap, rows, next))

\* lines 430-432: the strategy ladder and the map it yields
PickItemRowMap(b, rows) ==
    WithValue(buildMarkerItemRowMap(b, rows),
       LAMBDA markerMap :
          IF markerMap # None
          THEN [strategy |-> "marker-map", map |-> markerMap[1]]
          ELSE WithValue(pickExactItemRowMap(b, rows),
                  LAMBDA exactMap :
                     IF exactMap # None
                     THEN [strategy |-> "exact", map |-> exactMap[1]]
                     ELSE [strategy |-> "name",
                           map |-> buildNameMatchedRowMap(b, rows)]))

\* lines 430-503: the path without section markers
ParseByRowMap(b, rows) ==
    WithValue(PickItemRowMap(b, rows),
       LAMBDA picked :
        WithValue(DeepClone(b),
         LAMBDA updated :
          WithValue(ReadSections(updated.val.sections, 1, picked.map, rows,
                       [sections |-> << >>, changes |-> << >>, threw |-> FALSE]),
           LAMBDA r :
            WithValue([updated.val EXCEPT !.sections = r.sections],
             LAMBDA final :
                [phase |-> "parsed", strategy |-> picked.strategy,
                 threw |-> r.threw,
                 updatedBudget |-> final,
                 changes |-> r.changes,
                 input |-> IF updated.obj = "input" THEN final ELSE b]))))

\* lines 414-504.  The result carries, beside updatedBudget and changes, the
\* strategy taken, whether the call raised, and `input`: the value of the
\* caller's budget object when the call ends.
parseSheetData(b, rows, rowColors) ==
    WithValue(buildBudgetFromMarkers(b, rows, rowColors),
       LAMBDA rebuiltBudget :
          IF rebuiltBudget # None
          THEN [phase |-> "parsed", strategy |-> "rebuild", threw |-> FALSE,
                updatedBudget |-> rebuiltBudget[1],
                changes |-> IF StringifySections(rebuiltBudget[1].sections)
                               # StringifySections(b.sections)
                            THEN <<StructureChange>> ELSE << >>,
                input |-> b]
          ELSE ParseByRowMap(b, rows))

(***************************************************************************)
(* Budget documents                                                        *)
(***************************************************************************)
Fill(v) == [m \in Months |-> v]

SecId(k) == "s" \o ToString(k)
ItemId(j) == "i" \o ToString(j)

MkItem(j, name) ==
    [id |-> ItemId(j), name |-> name, color |-> None, note |-> << >>,
     excluded |-> FALSE, negative |-> FALSE, savingsLink |-> None,
     savingsPercentage |-> None, monthlyValues |-> Fill(0),
     keys |-> FullKeys]

MkSection(id, type, items) ==
    [id |-> id, name |-> <<"Section", " ", id>>, type |-> type,
     color |-> "#ffffff", showTotal |-> TRUE,
     totalLabel |-> <<"Total", " ", id>>, items |-> items]

SummarySection ==
    [id |-> "sum", name |-> <<"Summary">>, type |-> "summary",
     color |-> "#0a1828", showTotal |-> FALSE, totalLabel |-> << >>,
     items |-> << >>]

MkBudget(sections) ==
    [id |-> "b1", title |-> "Budget", year |-> 2026, linkedSheetId |-> None,
     sections |-> sections]

InsertAt(seq, p, x) == SubSeq(seq, 1, p - 1) \o <<x>> \o SubSeq(seq, p, Len(seq))

RECURSIVE SumTo(_, _)
SumTo(f, n) == IF n = 0 THEN 0 ELSE f[n] + SumTo(f, n - 1)

NonSummaryTypes == {"income", "expense", "savings"}

\* the item counts of n sections: at most MaxItems items in the budget
Counts(n) == {c \in [1..n -> 0..MaxItems] : SumTo(c, n) <= MaxItems}

\* a budget of n typed sections with cnt[k] items each (item j of the budget
\* is customised by itemOf), the summary section at position p (0: none)
Assemble(n, types, cnt, p, secOf(_, _), itemOf(_, _)) ==
    LET first(k) == SumTo(cnt, k - 1)
        sec(k) == secOf(k,
                     MkSection(SecId(k), types[k],
                        [i \in 1..cnt[k] |->
                            itemOf(first(k) + i,
                                   MkItem(first(k) + i,
                                          <<"Item", " ", ItemId(first(k) + i)>>))]))
        plain == [k \in 1..n |-> sec(k)]
    IN MkBudget(IF p = 0 THEN plain ELSE InsertAt(plain, p, SummarySection))

SavingsIds(n, types) == {SecId(k) : k \in {x \in 1..n : types[x] = "savings"}}

(***************************************************************************)
(* Sheets: what a read of the grid returns                                 *)
(***************************************************************************)
\* getValues after the valueRanges were put into an empty grid exactly as
\* emitted: row r holds the 17 cells written for it, a row nothing was
\* written to is empty, and a formula is the text that was written
ReadBack(payload) ==
    WithValue(payload.valueRanges,
       LAMBDA ranges :
          [r \in 1..(IF ranges = << >> THEN 0 ELSE ranges[Len(ranges)].row) |->
              WithValue(FindFirst(ranges, LAMBDA v : v.row = r),
                 LAMBDA hit : IF hit = None THEN << >> ELSE hit[1].values)])

\* a sheet of an earlier layout: the rows of buildRowLayout without the
\* section-header rows and/or the grand-total rows, no metadata column
\* (sheetParser.test.js 96-130 builds such rows by hand)
LegacyRows(b, includeSectionHeaders, includeGrandTotals) ==
    WithValue(buildRowLayout(b),
       LAMBDA lay :
          WithValue(
             SelectSeq(lay.rowLayout,
                LAMBDA e :
                   /\ (e.type = "section-header" => includeSectionHeaders)
                   /\ (e.type \in {"expense-grand-total", "savings-grand-total"}
                          => includeGrandTotals)),
             LAMBDA kept :
                [r \in 1..Len(kept) |->
                    IF kept[r].type = "separator" THEN << >>
                    ELSE SubSeq(EntryValues(b, lay, kept[r]), 1, COL_NOTES + 1)]))

LegacyKinds ==
    [legacyHG |-> <<TRUE, TRUE>>, legacyG |-> <<FALSE, TRUE>>,
     legacyH |-> <<TRUE, FALSE>>, legacy |-> <<FALSE, FALSE>>]

\* the sheet of a kind before any edit
ProducedRows(b, kind) ==
    CASE kind = "payload" -> ReadBack(generateSheetsPayload(b))
      [] kind \in DOMAIN LegacyKinds ->
            LegacyRows(b, LegacyKinds[kind][1], LegacyKinds[kind][2])
      [] OTHER -> << >>

AllItems(b) == ItemsInOrder(b.sections, 1)
ItemNames(b) == {AllItems(b)[i].item.name : i \in 1..Len(AllItems(b))}
\* the rows of the sheet that carry an item's name
NamedItemRows(b, rows) ==
    {r \in 1..Len(rows) : rowLabel(Some(rows[r])) \in ItemNames(b)}

SetCell(rows, r, col, cell) ==
    [rows EXCEPT ![r] = [@ EXCEPT ![col + 1] = cell]]

(***************************************************************************)
(* Budgets of the pull specifications                                      *)
(***************************************************************************)
ItemFeatures ==
    {"base-keys", "pct", "negative", "excluded", "link", "note", "twin"}
SectionFeatures == {"hide-total", "no-total-label"}

\* item j with one feature; its amounts are 100 * j units in every month
WithItemFeature(j, item, f, savings) ==
    LET it == [item EXCEPT !.monthlyValues = Fill(100 * j)]
    IN CASE f = "base-keys" -> [it EXCEPT !.keys = BaseKeys]
         [] f = "pct" -> [it EXCEPT !.savingsPercentage = Some(10)]
         [] f = "negative" -> [it EXCEPT !.negative = TRUE]
         [] f = "excluded" -> [it EXCEPT !.excluded = TRUE]
         [] f = "link" /\ savings # {} ->
               [it EXCEPT !.savingsLink =
                   Some(SecId(CHOOSE k \in savings : \A o \in savings : k <= o))]
         [] f = "note" -> [it EXCEPT !.note = <<"memo">>]
         [] f = "twin" -> [it EXCEPT !.name = <<"Item", " ", ItemId(1)>>]
         [] OTHER -> it

WithSectionFeature(section, f) ==
    CASE f = "hide-total" -> [section EXCEPT !.showTotal = FALSE]
      [] f = "no-total-label" -> [section EXCEPT !.totalLabel = << >>]
      [] OTHER -> section

\* the budgets over the given section types: any shape within the bounds, the
\* summary section at one of the given places (0: none, 1: first, 2: last),
\* and at most one feature, on one item or on one section
PullBudgets(types, places, itemFeatures, sectionFeatures) ==
    UNION {
      UNION {
        {Assemble(n, ty, cnt, IF p = 2 THEN n + 1 ELSE p,
            LAMBDA k, sec : IF k = at[2] THEN WithSectionFeature(sec, at[3])
                            ELSE sec,
            LAMBDA j, it : WithItemFeature(j, it,
                              IF j = at[1] THEN at[3] ELSE "plain",
                              {k \in 1..n : ty[k] = "savings"}))
           : at \in {<<0, 0, "plain">>}
                    \cup ((1..SumTo(cnt, n)) \X {0} \X itemFeatures)
                    \cup ({0} \X (1..n) \X sectionFeatures),
             p \in places}
        : ty \in [1..n -> types], cnt \in Counts(n)}
      : n \in 0..MaxSections}

(***************************************************************************)
(* budgetCalculator.js: the totals the app shows                           *)
(***************************************************************************)
\* lines 8-17: the first income or expense item, in list order, that links
\* to the savings section
findSavingsLinkedItem(sections, savingsSectionId) ==
    FindLinkedItem(sections, savingsSectionId, 1)

RECURSIVE SectionTotalLoop(_, _, _, _, _)
\* lines 28-37 for month m: the signed values of the items not excluded; an
\* item with a percentage counts the linked item's value * pct / 100 when
\* there is a linked item
SectionTotalLoop(section, linkedItem, m, i, total) ==
    IF i > Len(section.items) THEN total
    ELSE LET item == section.items[i]
             sign == IF item.negative THEN -1 ELSE 1
             value == IF item.savingsPercentage # None /\ linkedItem # None
                      THEN (linkedItem[1].monthlyValues[m]
                               * item.savingsPercentage[1]) \div 100
                      ELSE item.monthlyValues[m]
         IN SectionTotalLoop(section, linkedItem, m, i + 1,
                             IF item.excluded THEN total
                             ELSE total + sign * value)

\* lines 19-39; allSections is None when the caller passes one argument
computeSectionTotals(section, allSections) ==
    WithValue(IF section.type = "savings" /\ allSections # None
              THEN findSavingsLinkedItem(allSections[1], section.id)
              ELSE None,
       LAMBDA linkedItem :
          [m \in 1..NumMonths |-> SectionTotalLoop(section, linkedItem, m, 1, 0)])

RECURSIVE SummaryLoop(_, _, _)
\* lines 56-64: income and expense sections add to their side
SummaryLoop(sections, k, acc) ==
    IF k > Len(sections) THEN acc
    ELSE WithValue(
            IF sections[k].type \in {"income", "expense"}
            THEN computeSectionTotals(sections[k], None)
            ELSE [m \in 1..NumMonths |-> 0],
            LAMBDA totals :
               SummaryLoop(sections, k + 1,
                  [acc EXCEPT
                     !.incomeTotals =
                        IF sections[k].type = "income"
                        THEN [m \in 1..NumMonths |-> @[m] + totals[m]] ELSE @,
                     !.expenseTotals =
                        IF sections[k].type = "expense"
                        THEN [m \in 1..NumMonths |-> @[m] + totals[m]] ELSE @]))

\* lines 52-69
computeBudgetSummary(sections) ==
    WithValue(SummaryLoop(sections, 1,
                 [incomeTotals |-> [m \in 1..NumMonths |-> 0],
                  expenseTotals |-> [m \in 1..NumMonths |-> 0]]),
       LAMBDA acc :
          [incomeTotals |-> acc.incomeTotals,
           expenseTotals |-> acc.expenseTotals,
           remainingTotals |->
              [m \in 1..NumMonths |-> acc.incomeTotals[m] - acc.expenseTotals[m]]])

(***************************************************************************)
(* budgetReducer.js                                                        *)
(***************************************************************************)
\* every id a budget holds or refers to
IdsOf(state) ==
    {state.sections[k].id : k \in 1..Len(state.sections)}
    \cup UNION {UNION {{state.sections[k].items[j].id,
                        IF state.sections[k].items[j].savingsLink = None
                        THEN "none"
                        ELSE state.sections[k].items[j].savingsLink[1]}
                          : j \in 1..Len(state.sections[k].items)}
                  : k \in 1..Len(state.sections)}
\* uuidv4(): an identifier no section or item carries or refers to
FreshUuid(state) ==
    Uuid(CHOOSE n \in 1..(Cardinality(IdsOf(state)) + 1) :
            /\ Uuid(n) \notin IdsOf(state)
            /\ \A m \in 1..(n - 1) : Uuid(m) \in IdsOf(state))

\* { ...obj, ...updates }
Spread(obj, updates) ==
    [f \in DOMAIN obj \cup DOMAIN updates |->
        IF f \in DOMAIN updates THEN updates[f] ELSE obj[f]]
\* { ...item, ...updates }: a property the item lacked is added after the others
SpreadItem(item, updates) ==
    [Spread(item, updates) EXCEPT
        !.keys = item.keys
                 \o SelectSeq(FullKeys, LAMBDA k : k \in DOMAIN updates
                                                   /\ ~HasKey(item, k))]

\* lines 21-31, 39-46, 61-66, 74-79: state.sections.map over the section of
\* the id, whose items become `items`
WithItemsOf(state, sectionId, items(_)) ==
    [state EXCEPT !.sections =
        [k \in 1..Len(@) |->
            IF @[k].id # sectionId THEN @[k]
            ELSE [@[k] EXCEPT !.items = items(@)]]]

\* lines 89-91 and 137-139: splice(fromIndex, 1) then splice(toIndex, 0, moved),
\* for indices inside the array
Moved(seq, fromIndex, toIndex) ==
    InsertAt(SubSeq(seq, 1, fromIndex) \o SubSeq(seq, fromIndex + 2, Len(seq)),
             toIndex + 1, seq[fromIndex + 1])

\* lines 52-58
NewItem(id) ==
    [MkItem(0, <<"New", SP, "item">>) EXCEPT !.id = id, !.keys = BaseKeys]
\* lines 108-116
NewSection(id, sectionType) ==
    [id |-> id, name |-> <<"New", SP, "section">>,
     type |-> IF sectionType = None THEN "expense" ELSE sectionType[1],
     color |-> "#2560a0", showTotal |-> TRUE, totalLabel |-> <<"Total">>,
     items |-> << >>]

\* line 118: findIndex(s => s.type === 'summary'), from 0, -1 when none
SummaryIndex(sections) ==
    WithValue({k \in 1..Len(sections) : sections[k].type = "summary"},
       LAMBDA hits : IF hits = {} THEN -1
                     ELSE (CHOOSE k \in hits : \A j \in hits : k <= j) - 1)

\* the action types the switch has a case for
ReducerCases ==
    {"SET_BUDGET", "SET_TITLE", "SET_YEAR", "SET_LINKED_SHEET", "UPDATE_CELL",
     "UPDATE_ITEM", "ADD_ITEM", "DELETE_ITEM", "MOVE_ITEM", "UPDATE_SECTION",
     "ADD_SECTION", "DELETE_SECTION", "MOVE_SECTION"}

\* lines 3-146
reducer(state, action) ==
    CASE action.type = "SET_BUDGET" -> action.budget
      [] action.type = "SET_TITLE" -> [state EXCEPT !.title = action.title]
      [] action.type = "SET_YEAR" -> [state EXCEPT !.year = action.year]
      [] action.type = "SET_LINKED_SHEET" ->
            [state EXCEPT !.linkedSheetId = action.sheetId]
      [] action.type = "UPDATE_CELL" ->
            WithItemsOf(state, action.sectionId,
               LAMBDA items :
                  [j \in 1..Len(items) |->
                      IF items[j].id # action.itemId THEN items[j]
                      ELSE [items[j] EXCEPT
                              !.monthlyValues[action.monthIndex + 1] = action.value]])
      [] action.type = "UPDATE_ITEM" ->
            WithItemsOf(state, action.sectionId,
               LAMBDA items :
                  [j \in 1..Len(items) |->
                      IF items[j].id # action.itemId THEN items[j]
                      ELSE SpreadItem(items[j], action.updates)])
      [] action.type = "ADD_ITEM" ->
            WithItemsOf(state, action.sectionId,
               LAMBDA items :
                  Append(items, NewItem(IF action.itemId = None
                                        THEN FreshUuid(state)
                                        ELSE action.itemId[1])))
      [] action.type = "DELETE_ITEM" ->
            WithItemsOf(state, action.sectionId,
               LAMBDA items : SelectSeq(items, LAMBDA it : it.id # action.itemId))
      [] action.type = "MOVE_ITEM" ->
            WithItemsOf(state, action.sectionId,
               LAMBDA items : Moved(items, action.fromIndex, action.toIndex))
      [] action.type = "UPDATE_SECTION" ->
            [state EXCEPT !.sections =
                [k \in 1..Len(@) |->
                    IF @[k].id # action.sectionId THEN @[k]
                    ELSE Spread(@[k], action.updates)]]
      [] action.type = "ADD_SECTION" ->
            WithValue(SummaryIndex(state.sections),
               LAMBDA summaryIdx :
                  [state EXCEPT !.sections =
                      IF summaryIdx >= 0
                      THEN InsertAt(@, summaryIdx + 1,
                              NewSection(FreshUuid(state), action.sectionType))
                      ELSE Append(@, NewSection(FreshUuid(state),
                                                action.sectionType))])
      [] action.type = "DELETE_SECTION" ->
            [state EXCEPT !.sections =
                SelectSeq(@, LAMBDA s : s.id # action.sectionId)]
      [] action.type = "MOVE_SECTION" ->
            [state EXCEPT !.sections = Moved(@, action.fromIndex, action.toIndex)]
      [] OTHER -> state

(***************************************************************************)
(* useUndoReducer.js                                                       *)
(***************************************************************************)
MAX_HISTORY == 100
TRANSIENT_ACTIONS == {"SET_TITLE", "SET_YEAR", "SET_LINKED_SHEET"}
RESET_ACTIONS == {"SET_BUDGET"}

\* lines 105-110: the stacks of a fresh hook
NoHistory == [past |-> << >>, future |-> << >>]

\* lines 84-86 with `>` for `>=`
NewPastLate(past, present) ==
    IF Len(past) > MAX_HISTORY
    THEN Append(SubSeq(past, Len(past) - MAX_HISTORY + 2, Len(past)), present)
    ELSE Append(past, present)
\* lines 84-86
NewPast(past, present) ==
    IF Len(past) >= MAX_HISTORY
    THEN Append(SubSeq(past, Len(past) - MAX_HISTORY + 2, Len(past)), present)
    ELSE Append(past, present)

\* lines 33-96.  The inner reducer returns the very object it was given only
\* in its default case; every case of the switch builds a new object.
undoReducer(historyState, action) ==
    LET past == historyState.past
        present == historyState.present
        future == historyState.future
    IN CASE action.type = "UNDO" ->
              IF Len(past) = 0 THEN historyState
              ELSE [past |-> SubSeq(past, 1, Len(past) - 1),
                    present |-> past[Len(past)],
                    future |-> <<present>> \o future]
         [] action.type = "REDO" ->
              IF Len(future) = 0 THEN historyState
              ELSE [past |-> Append(past, present),
                    present |-> future[1],
                    future |-> Tail(future)]
         [] OTHER ->
              WithValue(reducer(present, action),
                 LAMBDA newPresent :
                    IF action.type \notin ReducerCases THEN historyState
                    ELSE IF action.type \in RESET_ACTIONS
                    THEN [past |-> << >>, present |-> newPresent,
                          future |-> << >>]
                    ELSE IF action.type \in TRANSIENT_ACTIONS
                    THEN [historyState EXCEPT !.present = newPresent]
                    ELSE [past |-> NewPast(past, present),
                          present |-> newPresent, future |-> << >>])

\* useUndoReducer's dispatch: the hook's state after the action
Dispatched(action) ==
    \E h \in {undoReducer([past |-> history.past, present |-> budget,
                           future |-> history.future], action)} :
       /\ budget' = h.present
       /\ history' = [past |-> h.past, future |-> h.future]
       /\ UNCHANGED <<layout, sheetRows, sheetKind, edits, pull, modal>>

(***************************************************************************)
(* summarizeChanges (sheetParser.js)                                       *)
(***************************************************************************)
\* `const bySection = {}`: the property names an object literal inherits from
\* Object.prototype; reading one of them gives a function or an object,
\* which is truthy and has no push method
ObjectPrototypeKeys ==
    {<<"constructor">>, <<"toString">>, <<"toLocaleString">>, <<"valueOf">>,
     <<"hasOwnProperty">>, <<"isPrototypeOf">>, <<"propertyIsEnumerable">>,
     <<"__proto__">>, <<"__defineGetter__">>, <<"__defineSetter__">>,
     <<"__lookupGetter__">>, <<"__lookupSetter__">>}

\* the own properties of bySection, in insertion order
OwnKeys(entries) == {entries[i].key : i \in 1..Len(entries)}
EntryOf(entries, key) ==
    CHOOSE i \in 1..Len(entries) : entries[i].key = key

RECURSIVE GroupBySection(_, _, _)
\* lines 514-520: the loop over the changes; an inherited property makes
\* `!bySection[name]` false, and the push on it raises a TypeError
GroupBySection(entries, changes, i) ==
    IF i > Len(changes) THEN [threw |-> FALSE, entries |-> entries]
    ELSE LET key == changes[i].sectionName
         IN IF key \in OwnKeys(entries)
            THEN GroupBySection(
                    [entries EXCEPT ![EntryOf(entries, key)].list =
                                        Append(@, changes[i])],
                    changes, i + 1)
            ELSE IF key \in ObjectPrototypeKeys
            THEN [threw |-> TRUE, entries |-> entries]
            ELSE GroupBySection(
                    Append(entries, [key |-> key, list |-> <<changes[i]>>]),
                    changes, i + 1)

\* changes.filter(c => c.type === type).length
CountOfType(changes, type) ==
    Cardinality({i \in 1..Len(changes) : changes[i].type = type})

\* `${n} value${n > 1 ? 's' : ''}` of lines 527-529, nothing when n is 0
CountPart(n, word) ==
    IF n > 0
    THEN <<ToString(n) \o " " \o word \o (IF n > 1 THEN "s" ELSE "")>>
    ELSE << >>

RECURSIVE JoinStrings(_, _)
\* parts.join(sep) of a list of strings
JoinStrings(parts, sep) ==
    IF parts = << >> THEN ""
    ELSE IF Len(parts) = 1 THEN parts[1]
    ELSE parts[1] \o sep \o JoinStrings(Tail(parts), sep)

\* lines 531-533
SummaryText(parts) ==
    IF Len(parts) > 0 THEN JoinStrings(parts, ", ") \o " changed"
    ELSE "No changes detected"

\* summarizeChanges(changes): what it returns, or that it raised
summarizeChanges(changes) ==
    WithValue(GroupBySection(<< >>, changes, 1),
       LAMBDA g :
          IF g.threw
          THEN [threw |-> TRUE, totalChanges |-> 0, summary |-> "",
                bySection |-> << >>]
          ELSE [threw |-> FALSE,
                totalChanges |-> Len(changes),
                summary |-> SummaryText(
                               CountPart(CountOfType(changes, "value"), "value")
                               \o CountPart(CountOfType(changes, "name"), "name")
                               \o CountPart(CountOfType(changes, "note"), "note")),
                bySection |-> g.entries])

(***************************************************************************)
(* GoogleSyncModal.jsx: the state of the component                         *)
(***************************************************************************)
\* lines 48-79, before the dialog is opened: `pending` is the call the
\* running handler awaits, `issued` the Sheets calls it has made, `completed`
\* how many of them returned, and `rows` the grid its getValues call returned
ModalClosed ==
    [phase |-> "closed", syncDirection |-> "push", step |-> 0,
     running |-> FALSE, syncError |-> None, done |-> FALSE,
     pullChanges |-> None, pullApplied |-> FALSE,
     pending |-> "none", issued |-> << >>, completed |-> 0, rows |-> None]

SyncFailedStillRunning(m, message) ==
    [m EXCEPT !.syncError = Some(message)]

\* the catch and finally blocks of handleStartPush and handleStartPull
SyncFailed(m, message) ==
    [m EXCEPT !.syncError = Some(message), !.running = FALSE,
              !.pending = "none"]

\* lines 225-232 of handleStartPull, after parseSheetData returned r
PullDiffed(m, r) ==
    IF r.threw THEN SyncFailed([m EXCEPT !.step = 2], "parseSheetData")
    ELSE WithValue(summarizeChanges(r.changes),
            LAMBDA s :
               IF s.threw
               THEN SyncFailed([m EXCEPT !.step = 2], "TypeError")
               ELSE [m EXCEPT !.pullChanges =
                                  Some([changes |-> r.changes,
                                        updatedBudget |-> r.updatedBudget,
                                        summary |-> s]),
                              !.step = 3, !.done = TRUE, !.running = FALSE,
                              !.pending = "none"])

(***************************************************************************)
(* SpecLayout: buildRowLayout applied to every budget of the bounds        *)
(***************************************************************************)
InitLayout ==
    /\ \E n \in 0..MaxSections :
       \E types \in [1..n -> NonSummaryTypes], p \in 0..(n + 1),
          show \in [1..n -> BOOLEAN] :
       \E cnt \in Counts(n) :
       \E link \in [1..SumTo(cnt, n) ->
                       {None} \cup {Some(id) : id \in SavingsIds(n, types)}] :
          budget = Assemble(n, types, cnt, p,
                      LAMBDA k, s : [s EXCEPT !.showTotal = show[k]],
                      LAMBDA j, it : [it EXCEPT !.savingsLink = link[j]])
    /\ layout = NoResult
    /\ sheetRows = << >>
    /\ sheetKind = "none"
    /\ edits = << >>
    /\ pull = NoResult
    /\ modal = ModalClosed
    /\ history = NoHistory

BuildRowLayout ==
    /\ layout = NoResult
    /\ layout' = buildRowLayout(budget)
    /\ UNCHANGED <<budget, sheetRows, sheetKind, edits, pull, modal, history>>

NextLayout == BuildRowLayout

SpecLayout == InitLayout /\ [][NextLayout]_vars


(***************************************************************************)
(* SpecRoundTrip: push into an empty grid, then pull with the same budget  *)
(***************************************************************************)
InitRoundTrip ==
    /\ budget \in PullBudgets(NonSummaryTypes, {0, 1, 2}, ItemFeatures,
                              SectionFeatures)
    /\ layout = NoResult
    /\ sheetRows = << >>
    /\ sheetKind = "none"
    /\ edits = << >>
    /\ pull = NoResult
    /\ modal = ModalClosed
    /\ history = NoHistory

\* what the caller holds after parseSheetData returned or raised, with the
\* row colours it passed
PullState(r, rowColors) ==
    [phase |-> r.phase, strategy |-> r.strategy, threw |-> r.threw,
     updatedBudget |-> r.updatedBudget, changes |-> r.changes,
     rowColors |-> rowColors]

\* GoogleSyncModal.jsx handleStartPush: the range is cleared, the valueRanges
\* of the budget are written, and the budget is linked to the sheet
WritePayload ==
    /\ sheetKind = "none"
    /\ pull = NoResult
    /\ layout' = buildRowLayout(budget)
    /\ sheetRows' = ReadBack(generateSheetsPayload(budget))
    /\ sheetKind' = "payload"
    /\ budget' = [budget EXCEPT !.linkedSheetId = Some("sheet")]
    /\ UNCHANGED <<edits, pull, modal, history>>

\* parseSheetData(budget, sheetRows): the call of the round trip, without
\* row colours
ParseSheet ==
    /\ sheetKind # "none"
    /\ pull = NoResult
    /\ \E r \in {parseSheetData(budget, sheetRows, None)} :
          pull' = PullState(r, None) /\ budget' = r.input
    /\ UNCHANGED <<layout, sheetRows, sheetKind, edits, modal, history>>

NextRoundTrip == WritePayload \/ ParseSheet

SpecRoundTrip == InitRoundTrip /\ [][NextRoundTrip]_vars

(***************************************************************************)
(* SpecPayload: the payload of budgets whose items carry several flags     *)
(***************************************************************************)
\* the section that holds item j of a budget with cnt[k] items in section k
SectionOfItem(cnt, j) ==
    CHOOSE k \in DOMAIN cnt : SumTo(cnt, k - 1) < j /\ j <= SumTo(cnt, k)

\* item j with its flags; `extra` is a savingsLink to the first savings section
\* for an item of an income or expense section, and a savingsPercentage for
\* an item of a savings section
WithFlags(j, item, type, flags, savings) ==
    [item EXCEPT
        !.monthlyValues = Fill(100 * j),
        !.excluded = flags.excluded,
        !.negative = flags.negative,
        !.savingsLink =
            IF flags.extra /\ type \in {"income", "expense"} /\ savings # {}
            THEN Some(SecId(CHOOSE k \in savings : \A o \in savings : k <= o))
            ELSE None,
        !.savingsPercentage =
            IF flags.extra /\ type = "savings" THEN Some(10) ELSE None]

ItemFlags == [excluded : BOOLEAN, negative : BOOLEAN, extra : BOOLEAN]

InitPayload ==
    /\ \E n \in 0..MaxSections :
       \E types \in [1..n -> NonSummaryTypes], p \in 0..(n + 1) :
       \E cnt \in Counts(n) :
       \E flags \in [1..SumTo(cnt, n) -> ItemFlags], hidden \in 0..n :
          budget = Assemble(n, types, cnt, p,
                      LAMBDA k, sec : [sec EXCEPT !.showTotal = (k # hidden)],
                      LAMBDA j, it :
                         WithFlags(j, it, types[SectionOfItem(cnt, j)], flags[j],
                                   {k \in 1..n : types[k] = "savings"}))
    /\ layout = NoResult
    /\ sheetRows = << >>
    /\ sheetKind = "none"
    /\ edits = << >>
    /\ pull = NoResult
    /\ modal = ModalClosed
    /\ history = NoHistory

NextPayload == WritePayload

SpecPayload == InitPayload /\ [][NextPayload]_vars

(***************************************************************************)
(* SpecRebuild: push and pull of budgets with links and repeated names     *)
(***************************************************************************)
\* item j named like item 1 when twin is set; `extra` as in WithFlags
WithNameAndLink(j, item, type, flags, savings) ==
    [WithFlags(j, item, type,
               [excluded |-> FALSE, negative |-> FALSE, extra |-> flags.extra],
               savings)
        EXCEPT !.name = IF flags.twin THEN <<"Item", " ", ItemId(1)>> ELSE @]

NameFlags == [twin : BOOLEAN, extra : BOOLEAN]

InitRebuild ==
    /\ \E n \in 0..MaxSections :
       \E types \in [1..n -> NonSummaryTypes], p \in {0, n + 1} :
       \E cnt \in Counts(n) :
       \E flags \in [1..SumTo(cnt, n) -> NameFlags] :
          budget = Assemble(n, types, cnt, p,
                      LAMBDA k, sec : sec,
                      LAMBDA j, it :
                         WithNameAndLink(j, it, types[SectionOfItem(cnt, j)],
                                         flags[j],
                                         {k \in 1..n : types[k] = "savings"}))
    /\ layout = NoResult
    /\ sheetRows = << >>
    /\ sheetKind = "none"
    /\ edits = << >>
    /\ pull = NoResult
    /\ modal = ModalClosed
    /\ history = NoHistory

NextRebuild == WritePayload \/ ParseSheet

SpecRebuild == InitRebuild /\ [][NextRebuild]_vars

(***************************************************************************)
(* SpecPull: a sheet of any supported kind, edited by hand, then pulled    *)
(***************************************************************************)
EditMonths == {1, 12}
\* a step inside the tolerance and a change beyond it
EditDeltas == {1, 50}
TruncateLengths == {1, 2}
RowColorChoices(rows) ==
    {None, Some([r \in 1..Len(rows) |-> "#2d8050"])}

InitPull ==
    /\ budget \in PullBudgets({"expense", "savings"}, {0, 2}, {"pct", "link"}, {})
    /\ layout = NoResult
    /\ sheetRows = << >>
    /\ sheetKind = "none"
    /\ edits = << >>
    /\ pull = NoResult
    /\ modal = ModalClosed
    /\ history = NoHistory

\* a sheet written before section markers existed
OpenLegacySheet ==
    /\ sheetKind = "none"
    /\ pull = NoResult
    /\ \E kind \in DOMAIN LegacyKinds :
          /\ sheetKind' = kind
          /\ sheetRows' = ProducedRows(budget, kind)
    /\ UNCHANGED <<budget, layout, edits, pull, modal, history>>

CanEdit == sheetKind # "none" /\ pull = NoResult /\ Len(edits) < MaxEdits

\* the user types another amount into a month cell of an item's row
EditMonthCell ==
    /\ CanEdit
    /\ \E r \in NamedItemRows(budget, sheetRows), m \in EditMonths,
          d \in EditDeltas :
          LET col == COL_JAN + m - 1
              old == ToNumber(CellOf(Some(sheetRows[r]), col))
          IN /\ col + 1 <= Len(sheetRows[r])
             /\ sheetRows' = SetCell(sheetRows, r, col, Num(old + d))
             /\ edits' = Append(edits, [kind |-> "month", row |-> r,
                                        col |-> col, delta |-> d])
    /\ UNCHANGED <<budget, layout, sheetKind, pull, modal, history>>

\* the user renames an item's row
EditLabel ==
    /\ CanEdit
    /\ \E r \in NamedItemRows(budget, sheetRows) :
          /\ sheetRows' = SetCell(sheetRows, r, COL_LABEL, Str(<<"Renamed">>))
          /\ edits' = Append(edits, [kind |-> "label", row |-> r,
                                     col |-> COL_LABEL, delta |-> 0])
    /\ UNCHANGED <<budget, layout, sheetKind, pull, modal, history>>

\* the user writes a note into an item's row
EditNote ==
    /\ CanEdit
    /\ \E r \in NamedItemRows(budget, sheetRows) :
          /\ COL_NOTES + 1 <= Len(sheetRows[r])
          /\ sheetRows' = SetCell(sheetRows, r, COL_NOTES, Str(<<"seen">>))
          /\ edits' = Append(edits, [kind |-> "note", row |-> r,
                                     col |-> COL_NOTES, delta |-> 0])
    /\ UNCHANGED <<budget, layout, sheetKind, pull, modal, history>>

\* the user clears an item's row from a column on; the API leaves trailing
\* empty cells out of the row it returns (googleSheets.js getValues)
TruncateRow ==
    /\ CanEdit
    /\ \E r \in NamedItemRows(budget, sheetRows), len \in TruncateLengths :
          /\ len < Len(sheetRows[r])
          /\ sheetRows' = [sheetRows EXCEPT ![r] = SubSeq(@, 1, len)]
          /\ edits' = Append(edits, [kind |-> "truncate", row |-> r,
                                     col |-> len, delta |-> 0])
    /\ UNCHANGED <<budget, layout, sheetKind, pull, modal, history>>

\* GoogleSyncModal.jsx handleStartPull: parseSheetData on what getValues and
\* getRowBackgroundColors returned; an unwritten sheet reads as []
PullSheet ==
    /\ pull = NoResult
    /\ \E rowColors \in RowColorChoices(sheetRows) :
       \E r \in {parseSheetData(budget, sheetRows, rowColors)} :
          pull' = PullState(r, rowColors) /\ budget' = r.input
    /\ UNCHANGED <<layout, sheetRows, sheetKind, edits, modal, history>>

NextPull ==
    \/ WritePayload
    \/ OpenLegacySheet
    \/ EditMonthCell
    \/ EditLabel
    \/ EditNote
    \/ TruncateRow
    \/ PullSheet

SpecPull == InitPull /\ [][NextPull]_vars

(***************************************************************************)
(* SpecFallback: sheets laid out by hand, which no layout candidate fits   *)
(***************************************************************************)
\* the item rows of these sheets start below every row a candidate predicts
FallbackOffset == 7
MaxHandRows == 3
\* a row typed by hand: a label and the amount 777 in every month
HandRow(label) ==
    [c \in 1..(COL_NOTES + 1) |->
        IF c = COL_LABEL + 1 THEN Str(label)
        ELSE IF c - 1 \in MonthCols THEN Num(777)
        ELSE Blank]
\* the labels typed: the names of the first two items, one of them padded
HandLabels ==
    {<<"Item", " ", ItemId(1)>>, <<SP, "Item", " ", ItemId(1), SP>>,
     <<"Item", " ", ItemId(2)>>, << >>}
HandSheets ==
    UNION {{<<HeaderValues>> \o [r \in 1..FallbackOffset |-> << >>]
               \o [r \in 1..len |-> HandRow(labels[r])]
              : labels \in [1..len -> HandLabels]}
             : len \in 0..MaxHandRows}

InitFallback ==
    /\ budget \in PullBudgets({"expense", "savings"}, {0, 2}, {"pct", "twin"}, {})
    /\ layout = NoResult
    /\ sheetRows \in HandSheets
    /\ sheetKind = "manual"
    /\ edits = << >>
    /\ pull = NoResult
    /\ modal = ModalClosed
    /\ history = NoHistory

NextFallback == PullSheet

SpecFallback == InitFallback /\ [][NextFallback]_vars

(***************************************************************************)
(* SpecMarkers: a pushed sheet in which the user copies a row, then a pull *)
(***************************************************************************)
InitMarkers ==
    /\ budget \in PullBudgets({"expense", "savings"}, {0, 1, 2},
                              {"link", "twin"}, {})
    /\ layout = NoResult
    /\ sheetRows = << >>
    /\ sheetKind = "none"
    /\ edits = << >>
    /\ pull = NoResult
    /\ modal = ModalClosed
    /\ history = NoHistory

\* the user copies a row of the sheet, hidden column included, below the
\* last row
CopyRowToEnd ==
    /\ CanEdit
    /\ \E r \in 1..Len(sheetRows) :
          /\ sheetRows[r] # << >>
          /\ sheetRows' = Append(sheetRows, sheetRows[r])
          /\ edits' = Append(edits, [kind |-> "copy", row |-> r,
                                     col |-> COL_LABEL, delta |-> 0])
    /\ UNCHANGED <<budget, layout, sheetKind, pull, modal, history>>

NextMarkers ==
    \/ WritePayload
    \/ CopyRowToEnd
    \/ PullSheet

SpecMarkers == InitMarkers /\ [][NextMarkers]_vars

(***************************************************************************)
(* SpecLadder: pushed, older and hand-made sheets, then a pull             *)
(***************************************************************************)
InitLadder ==
    /\ budget \in PullBudgets({"expense", "savings"}, {0, 2}, {"twin"}, {})
    /\ layout = NoResult
    /\ sheetRows = << >>
    /\ sheetKind = "none"
    /\ edits = << >>
    /\ pull = NoResult
    /\ modal = ModalClosed
    /\ history = NoHistory

\* a sheet somebody laid out by hand
OpenHandSheet ==
    /\ sheetKind = "none"
    /\ pull = NoResult
    /\ sheetRows' \in HandSheets
    /\ sheetKind' = "manual"
    /\ UNCHANGED <<budget, layout, edits, pull, modal, history>>

NextLadder ==
    \/ WritePayload
    \/ OpenLegacySheet
    \/ OpenHandSheet
    \/ PullSheet

SpecLadder == InitLadder /\ [][NextLadder]_vars

(***************************************************************************)
(* SpecReducer: a budget edited through the reducer                        *)
(***************************************************************************)
MaxDispatch == 2
\* every savingsLink names a savings section of the budget
LinksResolve(b) ==
    \A k \in 1..Len(b.sections) : \A j \in 1..Len(b.sections[k].items) :
       LET link == b.sections[k].items[j].savingsLink
       IN link # None =>
             \E s \in 1..Len(b.sections) :
                b.sections[s].id = link[1] /\ b.sections[s].type = "savings"

InitReducer ==
    /\ budget \in {b \in PullBudgets({"expense", "savings"}, {2}, {"link"}, {}) :
                      LinksResolve(b)}
    /\ layout = NoResult
    /\ sheetRows = << >>
    /\ sheetKind = "none"
    /\ edits = << >>
    /\ pull = NoResult
    /\ modal = ModalClosed
    /\ history = NoHistory

CanDispatch == Len(history.past) < MaxDispatch
SectionIds == {budget.sections[k].id : k \in 1..Len(budget.sections)}
ItemIdsOf(sectionId) ==
    UNION {{budget.sections[k].items[j].id : j \in 1..Len(budget.sections[k].items)}
              : k \in {s \in 1..Len(budget.sections) :
                          budget.sections[s].id = sectionId}}
ItemCountOf(sectionId) == Cardinality(ItemIdsOf(sectionId))

\* BudgetItem.jsx: a month cell is typed into
UpdateCell ==
    /\ CanDispatch
    /\ \E s \in SectionIds : \E i \in ItemIdsOf(s) :
          Dispatched([type |-> "UPDATE_CELL", sectionId |-> s, itemId |-> i,
                      monthIndex |-> 0, value |-> 5])
\* the item dialog saves a name, without touching savingsLink
UpdateItem ==
    /\ CanDispatch
    /\ \E s \in SectionIds : \E i \in ItemIdsOf(s) :
          Dispatched([type |-> "UPDATE_ITEM", sectionId |-> s, itemId |-> i,
                      updates |-> [name |-> <<"Renamed">>]])
AddItem ==
    /\ CanDispatch
    /\ \E s \in SectionIds :
          Dispatched([type |-> "ADD_ITEM", sectionId |-> s, itemId |-> None])
DeleteItem ==
    /\ CanDispatch
    /\ \E s \in SectionIds : \E i \in ItemIdsOf(s) :
          Dispatched([type |-> "DELETE_ITEM", sectionId |-> s, itemId |-> i])
MoveItem ==
    /\ CanDispatch
    /\ \E s \in SectionIds : \E from, to \in 0..(ItemCountOf(s) - 1) :
          /\ from # to
          /\ Dispatched([type |-> "MOVE_ITEM", sectionId |-> s,
                         fromIndex |-> from, toIndex |-> to])
\* ChartsPanel.jsx 330-382: the section manager writes one property at a time
UpdateSection ==
    /\ CanDispatch
    /\ \E s \in SectionIds :
       \E updates \in {[name |-> <<"Renamed">>], [showTotal |-> FALSE],
                       [type |-> "expense"], [type |-> "savings"]} :
          Dispatched([type |-> "UPDATE_SECTION", sectionId |-> s,
                      updates |-> updates])
AddSection ==
    /\ CanDispatch
    /\ \E sectionType \in {None, Some("savings")} :
          Dispatched([type |-> "ADD_SECTION", sectionType |-> sectionType])
DeleteSection ==
    /\ CanDispatch
    /\ \E s \in SectionIds :
          Dispatched([type |-> "DELETE_SECTION", sectionId |-> s])
MoveSection ==
    /\ CanDispatch
    /\ \E from, to \in 0..(Len(budget.sections) - 1) :
          /\ from # to
          /\ Dispatched([type |-> "MOVE_SECTION", fromIndex |-> from,
                         toIndex |-> to])

NextReducer ==
    \/ UpdateCell
    \/ UpdateItem
    \/ AddItem
    \/ DeleteItem
    \/ MoveItem
    \/ UpdateSection
    \/ AddSection
    \/ DeleteSection
    \/ MoveSection

SpecReducer == InitReducer /\ [][NextReducer]_vars

(***************************************************************************)
(* SpecUndo: edits, transient actions, undo and redo on short histories    *)
(***************************************************************************)
\* one expense section with one item
UndoBudget ==
    MkBudget(<<MkSection(SecId(1), "expense",
                         <<MkItem(1, <<"Item", " ", ItemId(1)>>)>>)>>)

InitUndo ==
    /\ budget = UndoBudget
    /\ layout = NoResult
    /\ sheetRows = << >>
    /\ sheetKind = "none"
    /\ edits = << >>
    /\ pull = NoResult
    /\ modal = ModalClosed
    /\ history = NoHistory

\* App.jsx: the title field
SetTitle ==
    /\ Dispatched([type |-> "SET_TITLE", title |-> "Plan"])
\* App.jsx: the year field
SetYear ==
    /\ Dispatched([type |-> "SET_YEAR", year |-> 2027])
\* GoogleSyncModal.jsx 197: the budget is linked after a push
SetLinkedSheet ==
    /\ Dispatched([type |-> "SET_LINKED_SHEET", sheetId |-> Some("sheet")])
\* another budget is opened
SetBudget ==
    /\ Dispatched([type |-> "SET_BUDGET", budget |-> UndoBudget])
\* the undo and redo buttons, enabled by canUndo and canRedo (lines 121-122)
Undo ==
    /\ Len(history.past) > 0
    /\ Dispatched([type |-> "UNDO"])
Redo ==
    /\ Len(history.future) > 0
    /\ Dispatched([type |-> "REDO"])

NextUndo ==
    \/ UpdateCell
    \/ AddItem
    \/ DeleteItem
    \/ SetTitle
    \/ SetYear
    \/ SetLinkedSheet
    \/ SetBudget
    \/ Undo
    \/ Redo

SpecUndo == InitUndo /\ [][NextUndo]_vars

(***************************************************************************)
(* SpecHistory: more edits than the history keeps                          *)
(***************************************************************************)
\* the same cell is typed into again and again
TypeIntoCell ==
    /\ Dispatched([type |-> "UPDATE_CELL", sectionId |-> SecId(1),
                   itemId |-> ItemId(1), monthIndex |-> 0, value |-> 5])

NextHistory ==
    \/ TypeIntoCell
    \/ SetBudget
    \/ Undo
    \/ Redo

SpecHistory == InitUndo /\ [][NextHistory]_vars

(***************************************************************************)
(* SpecSummary: summarizeChanges applied to every change list of the bounds *)
(***************************************************************************)
MaxChanges == 3
ChangeTypes == {"value", "name", "note"}
\* a section of the bounds, the entry of a rebuilt structure, and a section
\* the user named `constructor`
ChangeSectionNames ==
    {<<"Section", " ", "s1">>, StructureChange.sectionName, <<"constructor">>}
ChangeLists ==
    UNION {[1..len -> {Change(type, name, "i1", None, None, None, None, None)
                         : type \in ChangeTypes, name \in ChangeSectionNames}]
             : len \in 0..MaxChanges}

\* handleStartPull at line 225: parseSheetData has returned these changes
InitSummary ==
    /\ budget = MkBudget(<< >>)
    /\ layout = NoResult
    /\ sheetRows = << >>
    /\ sheetKind = "none"
    /\ edits = << >>
    /\ \E changes \in ChangeLists :
          pull = [phase |-> "parsed", strategy |-> "exact", threw |-> FALSE,
                  updatedBudget |-> budget, changes |-> changes,
                  rowColors |-> None]
    /\ modal = [ModalClosed EXCEPT !.phase = "sync", !.syncDirection = "pull",
                                   !.running = TRUE, !.step = 2,
                                   !.pending = "diff",
                                   !.issued = <<"info", "values", "colors">>,
                                   !.completed = 3, !.rows = Some(<< >>)]
    /\ history = NoHistory

\* lines 226-237: the changes are summarised and kept for review
SummarizePull ==
    /\ modal.pending = "diff"
    /\ modal' = PullDiffed(modal, pull)
    /\ UNCHANGED <<budget, layout, sheetRows, sheetKind, edits, pull, history>>

NextSummary == SummarizePull

SpecSummary == InitSummary /\ [][NextSummary]_vars

(***************************************************************************)
(* SpecSync: the dialog opened on a budget, pushes and pulls step by step  *)
(***************************************************************************)
\* the Sheets calls of a push and of a pull, in the order of the handlers
PushCalls == <<"info", "clear", "values", "formatting">>
PullCalls == <<"info", "values", "colors">>

InitSync ==
    /\ budget \in PullBudgets({"expense"}, {0}, {}, {})
    /\ layout = NoResult
    /\ sheetRows = << >>
    /\ sheetKind = "none"
    /\ edits = << >>
    /\ pull = NoResult
    /\ modal = ModalClosed
    /\ history = NoHistory

\* App.jsx lines 319-324: the dialog is mounted with its initial state
OpenSyncModal ==
    /\ modal.phase = "closed"
    /\ modal' = [ModalClosed EXCEPT !.phase = "selection"]
    /\ UNCHANGED <<budget, layout, sheetRows, sheetKind, edits, pull, history>>

\* the direction is chosen and handleRequestSync runs (lines 165-167)
RequestSync ==
    /\ modal.phase = "selection"
    /\ \E direction \in {"push", "pull"} :
          modal' = [modal EXCEPT !.phase = "confirm",
                                 !.syncDirection = direction]
    /\ UNCHANGED <<budget, layout, sheetRows, sheetKind, edits, pull, history>>

\* the Back button of the confirm phase (line 632)
BackToSelection ==
    /\ modal.phase = "confirm"
    /\ modal' = [modal EXCEPT !.phase = "selection"]
    /\ UNCHANGED <<budget, layout, sheetRows, sheetKind, edits, pull, history>>

CloseSyncModalApplying ==
    /\ modal.phase # "closed"
    /\ ~modal.running
    /\ modal' = ModalClosed
    /\ budget' = IF modal.pullChanges # None
                 THEN modal.pullChanges[1].updatedBudget ELSE budget
    /\ UNCHANGED <<layout, sheetRows, sheetKind, edits, pull, history>>

\* onClose: the close button, the overlay and the Cancel and Close buttons
\* exist only while no sync runs; the dialog is unmounted
CloseSyncModal ==
    /\ modal.phase # "closed"
    /\ ~modal.running
    /\ modal' = ModalClosed
    /\ UNCHANGED <<budget, layout, sheetRows, sheetKind, edits, pull, history>>

\* the call `name` is made and awaited
Issue(m, name) ==
    [m EXCEPT !.pending = name, !.issued = Append(@, name)]

\* `const t = token ?? await getAccessToken()`: with a token in the state the
\* handler goes on to getSpreadsheetInfo, otherwise it awaits the token
AwaitToken(m, cached) ==
    IF cached THEN Issue(m, "info") ELSE [m EXCEPT !.pending = "token"]

\* handleStartPush up to its first await (lines 171-180)
StartPush ==
    /\ modal.phase = "confirm"
    /\ modal.syncDirection = "push"
    /\ \E cached \in BOOLEAN :
          modal' = AwaitToken([modal EXCEPT !.phase = "sync", !.running = TRUE,
                                            !.syncError = None, !.step = 0],
                              cached)
    /\ UNCHANGED <<budget, layout, sheetRows, sheetKind, edits, pull, history>>

\* the call a push awaits returns: the handler runs on to its next await, or
\* to its end (lines 176-197)
PushStepDone ==
    /\ modal.running
    /\ modal.syncDirection = "push"
    /\ modal.pending # "none"
    /\ LET m == IF modal.pending = "token" THEN modal
                ELSE [modal EXCEPT !.completed = @ + 1]
       IN CASE modal.pending = "token" ->
                 /\ modal' = Issue([m EXCEPT !.step = 0], "info")
                 /\ UNCHANGED <<budget, layout, sheetRows, sheetKind, edits>>
            [] modal.pending = "info" ->
                 /\ modal' = Issue([m EXCEPT !.step = 1], "clear")
                 /\ UNCHANGED <<budget, layout, sheetRows, sheetKind, edits>>
            [] modal.pending = "clear" ->
                 /\ sheetRows' = << >>
                 /\ sheetKind' = "none"
                 /\ edits' = << >>
                 /\ modal' = Issue([m EXCEPT !.step = 2], "values")
                 /\ UNCHANGED <<budget, layout>>
            [] modal.pending = "values" ->
                 /\ layout' = buildRowLayout(budget)
                 /\ sheetRows' = ReadBack(generateSheetsPayload(budget))
                 /\ sheetKind' = "payload"
                 /\ modal' = Issue([m EXCEPT !.step = 3], "formatting")
                 /\ UNCHANGED <<budget, edits>>
            [] modal.pending = "formatting" ->
                 /\ modal' = [m EXCEPT !.step = 4, !.done = TRUE,
                                       !.running = FALSE, !.pending = "none"]
                 /\ budget' = [budget EXCEPT !.linkedSheetId = Some("sheet")]
                 /\ UNCHANGED <<layout, sheetRows, sheetKind, edits>>
    /\ UNCHANGED <<pull, history>>

\* the call a push or a pull awaits is rejected (lines 198-202, 233-237)
SyncStepFailed ==
    /\ modal.running
    /\ modal.pending # "none"
    /\ modal' = SyncFailed(modal, "request failed")
    /\ UNCHANGED <<budget, layout, sheetRows, sheetKind, edits, pull, history>>

\* handleStartPull up to its first await (lines 207-215)
StartPull ==
    /\ modal.phase = "confirm"
    /\ modal.syncDirection = "pull"
    /\ \E cached \in BOOLEAN :
          modal' = AwaitToken([modal EXCEPT !.phase = "sync", !.running = TRUE,
                                            !.syncError = None, !.step = 0,
                                            !.pullChanges = None,
                                            !.pullApplied = FALSE],
                              cached)
    /\ UNCHANGED <<budget, layout, sheetRows, sheetKind, edits, pull, history>>

\* the call a pull awaits returns (lines 215-232); after the row colours the
\* rows read are parsed against the budget and the changes summarised
PullStepDone ==
    /\ modal.running
    /\ modal.syncDirection = "pull"
    /\ modal.pending # "none"
    /\ LET m == IF modal.pending = "token" THEN modal
                ELSE [modal EXCEPT !.completed = @ + 1]
       IN CASE modal.pending = "token" ->
                 /\ modal' = Issue([m EXCEPT !.step = 0], "info")
                 /\ UNCHANGED <<budget, pull>>
            [] modal.pending = "info" ->
                 /\ modal' = Issue([m EXCEPT !.step = 1], "values")
                 /\ UNCHANGED <<budget, pull>>
            [] modal.pending = "values" ->
                 /\ modal' = Issue([m EXCEPT !.rows = Some(sheetRows)], "colors")
                 /\ UNCHANGED <<budget, pull>>
            [] modal.pending = "colors" ->
                 \E rowColors \in RowColorChoices(modal.rows[1]) :
                 \E r \in {parseSheetData(budget, modal.rows[1], rowColors)} :
                    /\ pull' = PullState(r, rowColors)
                    /\ budget' = r.input
                    /\ modal' = PullDiffed(m, r)
    /\ UNCHANGED <<layout, sheetRows, sheetKind, edits, history>>

\* the Apply button (lines 649-656) and handleApplyPull (lines 240-245):
\* SET_BUDGET with the parsed budget, then SET_LINKED_SHEET
ApplyPull ==
    /\ modal.phase = "sync" /\ ~modal.running /\ modal.done
    /\ modal.syncDirection = "pull" /\ ~modal.pullApplied
    /\ modal.pullChanges # None
    /\ modal.pullChanges[1].summary.totalChanges > 0
    /\ budget' = [modal.pullChanges[1].updatedBudget
                     EXCEPT !.linkedSheetId = Some("sheet")]
    /\ modal' = [modal EXCEPT !.pullApplied = TRUE]
    /\ history' = NoHistory
    /\ UNCHANGED <<layout, sheetRows, sheetKind, edits, pull>>

\* someone types into the sheet while the dialog is closed or open
NextSync ==
    \/ OpenSyncModal
    \/ RequestSync
    \/ BackToSelection
    \/ CloseSyncModal
    \/ StartPush
    \/ PushStepDone
    \/ SyncStepFailed
    \/ StartPull
    \/ PullStepDone
    \/ ApplyPull
    \/ EditMonthCell

SpecSync == InitSync /\ [][NextSync]_vars

(***************************************************************************)
(* Claims about the round trip and the marker rebuild                      *)
(***************************************************************************)
Parsed == pull.phase = "parsed"
Range(seq) == {seq[i] : i \in 1..Len(seq)}
Items(b) == {AllItems(b)[i].item : i \in 1..Len(AllItems(b))}

\* a budget as section 3 of the specification describes it
WellFormedBudget(b) ==
    /\ Cardinality({k \in 1..Len(b.sections) : b.sections[k].type = "summary"}) <= 1
    /\ \A k \in 1..Len(b.sections) :
          LET sec == b.sections[k]
          IN /\ sec.type = "summary" => sec.items = << >>
             /\ \A j \in 1..Len(sec.items) :
                   LET it == sec.items[j]
                   IN /\ it.keys = FullKeys
                      /\ it.savingsPercentage # None => sec.type = "savings"
                      /\ it.savingsLink # None =>
                            /\ sec.type \in {"income", "expense"}
                            /\ \E q \in 1..Len(b.sections) :
                                  /\ b.sections[q].type = "savings"
                                  /\ Some(b.sections[q].id) = it.savingsLink
    /\ \A x, y \in Items(b) : x.name = y.name => x = y

\* C1: for every well-formed budget, parsing the grid that holds exactly the
\* cells generateSheetsPayload emitted for it, against the same budget, returns
\* an empty changes list.
C1_RoundTripNoChanges ==
    (Parsed /\ sheetKind = "payload" /\ edits = << >> /\ WellFormedBudget(budget))
       => pull.changes = << >>

\* C7: when the sheet holds a section marker, parseSheetData returns at most one
\* change entry, and never a per-field value or note record: the one synthetic
\* entry when the rebuilt section list differs from budget.sections, an empty
\* list when the two are identical.
C7_MarkerPathOneSyntheticEntry ==
    (Parsed /\ MarkerRowsOf(sheetRows) # << >>)
       => /\ pull.strategy = "rebuild"
          /\ Len(pull.changes) <= 1
          /\ pull.changes = IF pull.updatedBudget.sections # budget.sections
                            THEN <<StructureChange>> ELSE << >>

\* C7 witness: a rebuild of a budget of two items that reports the one entry
C7_Witness ==
    /\ Parsed
    /\ pull.strategy = "rebuild"
    /\ pull.changes = <<StructureChange>>
    /\ Len(AllItems(budget)) >= 2

(***************************************************************************)
(* Claims about parseSheetData on edited sheets                            *)
(***************************************************************************)
MappingPath == pull.strategy \in {"marker-map", "exact", "name"}
IsSkipped(b, e) ==
    e.item.savingsPercentage # None /\ b.sections[e.sec].type = "savings"
\* the item of updatedBudget at the place of entry e of AllItems(budget)
UpdatedAt(e) == pull.updatedBudget.sections[e.sec].items[e.idx]
\* the entries of AllItems(budget) that the row map sends to a row of the
\* sheet and that are read
ReadEntries(map) ==
    {e \in Range(AllItems(budget)) :
        /\ MapHas(map, e.item.id)
        /\ map[e.item.id] \in 1..Len(sheetRows)
        /\ ~IsSkipped(budget, e)}
SheetValue(r, m) == ToNumber(CellOf(Some(sheetRows[r]), COL_JAN + m - 1))
\* the item of the budget whose name labels row r
ItemOfRow(r) ==
    CHOOSE it \in Items(budget) : it.name = rowLabel(Some(sheetRows[r]))

\* C2: on every strategy path, an item with savingsPercentage set in a savings
\* section is never imported: updatedBudget holds it with the name, note and
\* monthlyValues of the input budget, and no change record carries its id.
C2_PercentageItemsNeverImported ==
    Parsed =>
      \A e \in Range(AllItems(budget)) :
         IsSkipped(budget, e) =>
            /\ \E u \in Items(pull.updatedBudget) :
                  /\ u.id = e.item.id
                  /\ u.name = e.item.name
                  /\ u.note = e.item.note
                  /\ u.monthlyValues = e.item.monthlyValues
            /\ \A c \in Range(pull.changes) : c.itemId # e.item.id

\* C3: parseSheetData never mutates its input: on every path the caller's
\* budget is after the call what it was before.
C3_InputNotMutated == [][pull' # pull => budget' = budget]_vars

\* C3 witness: a call on an item-row-mapping path wrote changes into its copy
C3_Witness ==
    /\ Parsed
    /\ MappingPath
    /\ pull.changes # << >>
    /\ pull.updatedBudget.sections # budget.sections

C5_ValueChangesIffBeyondTolerance ==
    (Parsed /\ MappingPath) =>
      LET map == PickItemRowMap(budget, sheetRows).map
      IN \A e \in ReadEntries(map) : \A m \in Months :
            LET sheet == SheetValue(map[e.item.id], m)
                local == e.item.monthlyValues[m]
                recs == {i \in 1..Len(pull.changes) :
                            /\ pull.changes[i].type = "value"
                            /\ pull.changes[i].itemId = e.item.id
                            /\ pull.changes[i].monthIndex = Some(m - 1)}
            IN IF Abs(sheet - local) > Epsilon
               THEN /\ Cardinality(recs) = 1
                    /\ \A i \in recs : /\ pull.changes[i].oldValue = Num(local)
                                       /\ pull.changes[i].newValue = Num(sheet)
                    /\ UpdatedAt(e).monthlyValues[m] = sheet
               ELSE /\ recs = {}
                    /\ UpdatedAt(e).monthlyValues[m] = local

\* every edit so far moved a month cell of an item's row to a value within the
\* tolerance of that item's local value
OnlyNudged ==
    /\ edits # << >>
    /\ \A i \in 1..Len(edits) :
          /\ edits[i].kind = "month"
          /\ rowLabel(Some(sheetRows[edits[i].row])) \in ItemNames(budget)
          /\ Abs(ToNumber(CellOf(Some(sheetRows[edits[i].row]), edits[i].col))
                 - ItemOfRow(edits[i].row).monthlyValues[edits[i].col - COL_JAN + 1])
                <= Epsilon

\* C6: whichever strategy parseSheetData takes, a month cell within 0.001 of
\* the item's local value is never reported: it adds no entry to the changes
\* list, which is as long as for the sheet before the cell was touched.
C6_ToleranceOnEveryStrategy ==
    (Parsed /\ OnlyNudged) =>
       Len(pull.changes)
          = Len(parseSheetData(budget, ProducedRows(budget, sheetKind),
                               pull.rowColors).changes)

\* C8: on a marker-less sheet in one of the four supported layouts, whose item
\* rows hold the items' names and values and whose total rows hold the total
\* labels, every item is mapped to its own row: the unmodified sheet yields no
\* change, and an edited month cell is imported into the item of that row.
C8_LegacyLayoutsMapOwnRows ==
    (/\ Parsed
     /\ sheetKind \in DOMAIN LegacyKinds
     /\ WellFormedBudget(budget)
     /\ \A it \in Items(budget) : it.savingsPercentage = None)
    => /\ edits = << >> => pull.changes = << >>
       /\ (Len(edits) = 1 /\ edits[1].kind = "month" /\ edits[1].delta > Epsilon)
             => /\ Len(pull.changes) = 1
                /\ pull.changes[1].type = "value"
                /\ pull.changes[1].itemId = ItemOfRow(edits[1].row).id
                /\ pull.changes[1].monthIndex = Some(edits[1].col - COL_JAN)
                /\ pull.changes[1].newValue
                      = CellOf(Some(sheetRows[edits[1].row]), edits[1].col)

(***************************************************************************)
(* Claims about buildRowLayout                                             *)
(***************************************************************************)
LayoutDone == layout.phase = "layout"
Secs == budget.sections
EntriesOf(type, k) ==
    {e \in 1..Len(layout.rowLayout) :
        layout.rowLayout[e].type = type /\ layout.rowLayout[e].sec = k}
Occurrences(seq, x) == Cardinality({i \in 1..Len(seq) : seq[i] = x})

\* the items of income and expense sections that link to section k
Linkers(k) ==
    {p \in (1..Len(Secs)) \X (1..MaxItems) :
        /\ p[2] <= Len(Secs[p[1]].items)
        /\ Secs[p[1]].type \in {"income", "expense"}
        /\ Secs[p[1]].items[p[2]].savingsLink = Some(Secs[k].id)}
FirstLinker(k) ==
    CHOOSE p \in Linkers(k) :
       \A q \in Linkers(k) : p[1] < q[1] \/ (p[1] = q[1] /\ p[2] <= q[2])
ItemRowOf(p) ==
    layout.rowLayout[CHOOSE e \in EntriesOf("item", p[1]) :
                        layout.rowLayout[e].item = p[2]].rowIndex

\* C9: a savings section S gets exactly one savings-auto row, directly after
\* its section-header and before its items, if and only if the first income or
\* expense item (in list order) whose savingsLink is S.id lies in a section
\* before S; linkedItemRow is then that item's row and lies above the auto-row.
\* Otherwise S has no auto-row (a forward reference is never resolved, and a
\* linking item of a savings section does not count).
C9_AutoRowIffFirstLinkerHasRow ==
    LayoutDone =>
      \A k \in 1..Len(Secs) :
         LET autos == EntriesOf("savings-auto", k)
         IN IF Secs[k].type = "savings" /\ Linkers(k) # {}
                /\ FirstLinker(k)[1] < k
            THEN /\ Cardinality(autos) = 1
                 /\ \A e \in autos :
                      LET a == layout.rowLayout[e]
                          h == layout.rowLayout[e - 1]
                      IN /\ h.type = "section-header" /\ h.sec = k
                         /\ a.rowIndex = h.rowIndex + 1
                         /\ \A i \in EntriesOf("item", k) : i > e
                         /\ a.linkedItemRow = ItemRowOf(FirstLinker(k))
                         /\ a.linkedItemRow < a.rowIndex
            ELSE autos = {}

\* C9 witness: an auto-row was emitted for a section that two items link to
C9_Witness ==
    /\ LayoutDone
    /\ \E k \in 1..Len(Secs) :
          EntriesOf("savings-auto", k) # {} /\ Cardinality(Linkers(k)) >= 2

TotalLists ==
    [income |-> layout.incomeTotalRows, expense |-> layout.expenseTotalRows,
     savings |-> layout.savingsTotalRows]

\* C10: a non-summary section has exactly one total entry when showTotal is
\* true (also with no items and no auto-row) and none when it is false; each
\* total row is listed exactly once, in the list of its section's type and in
\* no other, and the three lists hold nothing else.
C10_OneTotalPerShownSection ==
    LayoutDone =>
      /\ \A k \in 1..Len(Secs) :
            Cardinality(EntriesOf("total", k)) =
               IF Secs[k].type # "summary" /\ Secs[k].showTotal THEN 1 ELSE 0
      /\ \A k \in 1..Len(Secs) : \A e \in EntriesOf("total", k) :
            \A t \in NonSummaryTypes :
               Occurrences(TotalLists[t], layout.rowLayout[e].rowIndex) =
                  IF t = Secs[k].type THEN 1 ELSE 0
      /\ \A t \in NonSummaryTypes : \A r \in Range(TotalLists[t]) :
            \E k \in 1..Len(Secs) : \E e \in EntriesOf("total", k) :
               layout.rowLayout[e].rowIndex = r /\ Secs[k].type = t
      /\ \A t, u \in NonSummaryTypes :
            t # u => Range(TotalLists[t]) \cap Range(TotalLists[u]) = {}

\* C10 witness: an empty savings section without auto-row has its total row,
\* beside an expense section's total
C10_Witness ==
    /\ LayoutDone
    /\ \E k \in 1..Len(Secs) :
          /\ Secs[k].type = "savings" /\ Secs[k].items = << >>
          /\ EntriesOf("savings-auto", k) = {}
          /\ EntriesOf("total", k) # {}
    /\ layout.expenseTotalRows # << >>

\* the place of the one summary section of the budget
SummaryAt == CHOOSE k \in 1..Len(Secs) : Secs[k].type = "summary"
EntriesOfType(type) ==
    {e \in 1..Len(layout.rowLayout) : layout.rowLayout[e].type = type}

ItemPlaces ==
    {p \in (1..Len(Secs)) \X (1..MaxItems) : p[2] <= Len(Secs[p[1]].items)}
ItemAt(p) == Secs[p[1]].items[p[2]]
Before(p, q) == p[1] < q[1] \/ (p[1] = q[1] /\ p[2] < q[2])

\* C12: for a budget with pairwise distinct item ids, the keys of itemRowMap
\* are exactly the ids of the items of the non-summary sections, each id maps
\* to the rowIndex of the single item entry of its item, distinct items have
\* distinct rows, and the rows increase in section order, then item order.
C12_ItemRowMapIsTheItemRows ==
    (LayoutDone /\ \A p, q \in ItemPlaces : ItemAt(p).id = ItemAt(q).id => p = q)
    => /\ DOMAIN layout.itemRowMap
            = {ItemAt(p).id : p \in {q \in ItemPlaces : Secs[q[1]].type # "summary"}}
       /\ \A p \in ItemPlaces :
             LET es == {e \in EntriesOf("item", p[1]) :
                           layout.rowLayout[e].item = p[2]}
             IN /\ Cardinality(es) = 1
                /\ \A e \in es :
                      layout.itemRowMap[ItemAt(p).id] = layout.rowLayout[e].rowIndex
       /\ \A p, q \in ItemPlaces :
             Before(p, q) =>
                layout.itemRowMap[ItemAt(p).id] < layout.itemRowMap[ItemAt(q).id]

\* C12 witness: two items of two sections, the second section with an auto-row
C12_Witness ==
    /\ LayoutDone
    /\ Cardinality(DOMAIN layout.itemRowMap) = 2
    /\ \E p, q \in ItemPlaces : p[1] < q[1]
    /\ EntriesOfType("savings-auto") # {}

(***************************************************************************)
(* Claims about generateSheetsPayload                                      *)
(***************************************************************************)
Written == LayoutDone /\ sheetKind = "payload" /\ edits = << >> /\ pull = NoResult
\* the cell written to column col (0-based) of row r
CellAt(r, col) == sheetRows[r][col + 1]
Term(col, row, sign) == [col |-> col, row |-> row, sign |-> sign]

RECURSIVE Terms(_, _, _, _)
\* what a formula of references, signs and SUM ranges adds up: one term per
\* referenced cell, a range counted cell by cell
Terms(f, i, sign, acc) ==
    IF i > Len(f) THEN acc
    ELSE CASE f[i].k = "+" -> Terms(f, i + 1, 1, acc)
           [] f[i].k = "-" -> Terms(f, i + 1, -1, acc)
           [] f[i].k = "ref" ->
                 Terms(f, i + 1, 1, Append(acc, Term(f[i].c, f[i].r, sign)))
           [] f[i].k = "SUM(" ->
                 Terms(f, i + 5, 1,
                       acc \o [d \in 1..(f[i + 3].r - f[i + 1].r + 1) |->
                                 Term(f[i + 1].c, f[i + 1].r + d - 1, sign)])
           [] OTHER -> Terms(f, i + 1, sign, acc)

\* the cells a total row of section k has to add up in column c
TotalTerms(k, c) ==
    {Term(c, layout.itemRowMap[Secs[k].items[i].id],
          IF Secs[k].items[i].negative THEN -1 ELSE 1)
        : i \in {j \in 1..Len(Secs[k].items) : ~Secs[k].items[j].excluded}}
    \cup {Term(c, layout.rowLayout[e].rowIndex, 1)
             : e \in EntriesOf("savings-auto", k)}

\* C13: each month cell of a section's total row adds up exactly the rows of
\* the section's non-excluded items and of its auto-row: an excluded item's
\* row is referenced neither by itself nor inside a SUM range, a negative
\* item's row once with a minus sign, any other included row once with a
\* plus sign; without auto-row and included item the cell is the literal 0.
C13_TotalsSumIncludedRowsSigned ==
    Written =>
      \A k \in 1..Len(Secs) : \A e \in EntriesOf("total", k) :
         \A c \in MonthCols :
            LET cell == CellAt(layout.rowLayout[e].rowIndex, c)
            IN IF TotalTerms(k, c) = {} THEN cell = Num(0)
               ELSE /\ cell.t = "formula"
                    /\ Range(Terms(cell.f, 1, 1, << >>)) = TotalTerms(k, c)
                    /\ Len(Terms(cell.f, 1, 1, << >>))
                          = Cardinality(TotalTerms(k, c))

\* C13 witness: a total over an auto-row and a negative item, and a total of
\* a section whose only item is excluded
C13_Witness ==
    /\ Written
    /\ \E k \in 1..Len(Secs) :
          /\ EntriesOf("total", k) # {}
          /\ EntriesOf("savings-auto", k) # {}
          /\ \E i \in 1..Len(Secs[k].items) :
                Secs[k].items[i].negative /\ ~Secs[k].items[i].excluded
    /\ \E k \in 1..Len(Secs) :
          /\ EntriesOf("total", k) # {}
          /\ \E i \in 1..Len(Secs[k].items) : Secs[k].items[i].excluded

\* the items of savings sections that have savingsPercentage set
PercentagePlaces ==
    {p \in ItemPlaces : Secs[p[1]].type = "savings"
                         /\ ItemAt(p).savingsPercentage # None}

\* C14: for every item with savingsPercentage = p in a savings section, each of
\* the 12 month cells written is a formula that multiplies the same-month cell
\* of the section's savings-auto row by p/100; the item's stored monthlyValues
\* are never written as literals.
C14_PercentageItemsAreFormulas ==
    Written =>
      \A p \in PercentagePlaces : \A c \in MonthCols :
         LET cell == CellAt(layout.itemRowMap[ItemAt(p).id], c)
         IN /\ cell.t = "formula"
            /\ \E e \in EntriesOf("savings-auto", p[1]) :
                  cell.f = <<Ref(c, layout.rowLayout[e].rowIndex), Op("*"),
                             Lit(ItemAt(p).savingsPercentage[1]), Op("/100")>>

\* the rows of the total entries of the sections of a type, in layout order
TotalRowsOfType(type) ==
    LET totals == SelectSeq(layout.rowLayout,
                     LAMBDA e : e.type = "total" /\ Secs[e.sec].type = type)
    IN [i \in 1..Len(totals) |-> totals[i].rowIndex]
\* one side of the remaining formula: the references joined by "+", or 0
SideOf(rows, c) ==
    IF rows = << >> THEN <<Lit(0)>>
    ELSE JoinWith([i \in 1..Len(rows) |-> <<Ref(c, rows[i])>>], Op("+"))

\* C15: in each month column the remaining row is the formula (references to
\* every income total row) - (references to every expense total row), over
\* the total rows of all income and expense sections, those listed after the
\* summary section included; it is the literal 0 exactly when there is no
\* such row, and has 0 for a side without rows.
C15_RemainingIsIncomeMinusExpense ==
    Written =>
      \A e \in EntriesOfType("remaining") : \A c \in MonthCols :
         LET cell == CellAt(layout.rowLayout[e].rowIndex, c)
             inc == TotalRowsOfType("income")
             exp == TotalRowsOfType("expense")
         IN /\ (cell = Num(0)) <=> (inc = << >> /\ exp = << >>)
            /\ cell # Num(0) =>
                  /\ cell.t = "formula"
                  /\ cell.f = <<Op("(")>> \o SideOf(inc, c)
                               \o <<Op(")"), Op("-"), Op("(")>>
                               \o SideOf(exp, c) \o <<Op(")")>>

\* C15 witness: an expense total below the summary rows and no income total
C15_Witness ==
    /\ Written
    /\ \E e \in EntriesOfType("remaining") :
          /\ TotalRowsOfType("income") = << >>
          /\ \E i \in 1..Len(TotalRowsOfType("expense")) :
                TotalRowsOfType("expense")[i] > layout.rowLayout[e].rowIndex
          /\ CellAt(layout.rowLayout[e].rowIndex, COL_JAN).t = "formula"

\* C16: the running-balance entry's remainingRow is the rowIndex of the
\* remaining entry of the same summary section, the row directly above it; in
\* the written row the January cell references the remaining row's January
\* cell, each later month cell is the previous month's running-balance cell
\* plus the same month's remaining cell, and the annual and average cells are
\* blank.
C16_RunningBalanceAccumulatesRemaining ==
    LayoutDone =>
      \A e \in EntriesOfType("running-balance") :
         LET rb == layout.rowLayout[e]
             rem == layout.rowLayout[e - 1]
         IN /\ rem.type = "remaining" /\ rem.sec = rb.sec
            /\ rb.remainingRow = rem.rowIndex
            /\ rb.rowIndex = rem.rowIndex + 1
            /\ Written =>
                  /\ CellAt(rb.rowIndex, COL_JAN)
                        = Formula(<<Ref(COL_JAN, rem.rowIndex)>>)
                  /\ \A c \in MonthCols \ {COL_JAN} :
                        CellAt(rb.rowIndex, c)
                           = Formula(<<Ref(c - 1, rb.rowIndex), Op("+"),
                                       Ref(c, rem.rowIndex)>>)
                  /\ CellAt(rb.rowIndex, COL_ANNUAL) = Blank
                  /\ CellAt(rb.rowIndex, COL_AVG) = Blank

\* C16 witness: a running-balance row written below two sections
C16_Witness ==
    /\ Written
    /\ \E e \in EntriesOfType("running-balance") :
          /\ layout.rowLayout[e].remainingRow > 8
          /\ CellAt(layout.rowLayout[e].rowIndex, COL_DEC).t = "formula"

(***************************************************************************)
(* Claims about the savings links of the marker rebuild                    *)
(***************************************************************************)
USecs == pull.updatedBudget.sections
\* the income and expense items of updatedBudget, as <<section, place>>
ULinkable ==
    {p \in (1..Len(USecs)) \X (1..MaxItems) :
        /\ p[2] <= Len(USecs[p[1]].items)
        /\ USecs[p[1]].type \in {"income", "expense"}}
UItemAt(p) == USecs[p[1]].items[p[2]]

\* C17: in the marker rebuild, for each savings section whose span holds an
\* auto-row labelled with the arrow and X, exactly one item gets savingsLink
\* set to that section's id: the first income or expense item named X, in
\* rebuilt section and item order; one auto-row never makes two items link to
\* the same savings section.
C17_AutoRowLinksFirstMatchOnly ==
    (Parsed /\ pull.strategy = "rebuild" /\ sheetKind = "payload"
       /\ edits = << >>) =>
      \A e \in EntriesOfType("savings-auto") :
         LET auto == layout.rowLayout[e]
             named == {p \in ULinkable : UItemAt(p).name = auto.linkedItemName}
             linked == {p \in named :
                          UItemAt(p).savingsLink = Some(Secs[auto.sec].id)}
         IN named # {} =>
               /\ Cardinality(linked) = 1
               /\ \A p \in linked : \A q \in named : p = q \/ Before(p, q)

(***************************************************************************)
(* Claims about summarizeChanges                                           *)
(***************************************************************************)
\* the pull reached the summary of the changes parseSheetData returned
Summarised ==
    /\ modal.phase = "sync" /\ modal.syncDirection = "pull"
    /\ ~modal.running /\ modal.pending = "none"
    /\ pull.phase = "parsed" /\ ~pull.threw

\* "2 values": the count of one type as the phrase names it, "" for none
Counted(changes, type) ==
    LET n == Cardinality({i \in 1..Len(changes) : changes[i].type = type})
    IN IF n = 0 THEN ""
       ELSE IF n = 1 THEN "1 " \o type
       ELSE ToString(n) \o " " \o type \o "s"

\* the non-zero counts of value, name and note changes, comma-joined
Phrase(changes) ==
    JoinStrings(SelectSeq(<<Counted(changes, "value"), Counted(changes, "name"),
                            Counted(changes, "note")>>,
                          LAMBDA s : s # ""), ", ")

\* bySection holds every change once, under the name of its section
Partitions(bySection, changes) ==
    /\ \A i, j \in 1..Len(bySection) :
          bySection[i].key = bySection[j].key => i = j
    /\ \A i \in 1..Len(bySection) :
          /\ bySection[i].list # << >>
          /\ bySection[i].list =
                SelectSeq(changes,
                          LAMBDA c : c.sectionName = bySection[i].key)
    /\ \A i \in 1..Len(changes) :
          changes[i].sectionName \in OwnKeys(bySection)
    /\ SumTo([i \in 1..Len(bySection) |-> Len(bySection[i].list)],
             Len(bySection)) = Len(changes)

\* C18: summarizeChanges(changes) returns totalChanges = the number of
\* changes, bySection partitioning the changes by sectionName, and summary
\* 'No changes detected' exactly for no changes, otherwise the comma-joined
\* non-zero counts of value, name and note changes followed by ' changed'
C18_SummaryCountsAndPartitions ==
    Summarised =>
       /\ modal.syncError = None
       /\ modal.pullChanges # None
       /\ LET s == modal.pullChanges[1].summary
              changes == pull.changes
          IN /\ s.totalChanges = Len(changes)
             /\ Partitions(s.bySection, changes)
             /\ (s.summary = "No changes detected") <=> (changes = << >>)
             /\ changes # << >> => s.summary = Phrase(changes) \o " changed"

(***************************************************************************)
(* Claims about the sync dialog                                            *)
(***************************************************************************)
PushSession == modal.phase = "sync" /\ modal.syncDirection = "push"
PullSession == modal.phase = "sync" /\ modal.syncDirection = "pull"
IsPrefix(s, t) == Len(s) <= Len(t) /\ s = SubSeq(t, 1, Len(s))

\* the calls made so far are the first calls of the push, all but the one
\* awaited have returned, and an error ends the run without completion
PushInOrder ==
    PushSession =>
       /\ IsPrefix(modal.issued, PushCalls)
       /\ modal.completed \in {Len(modal.issued) - 1, Len(modal.issued)}
       /\ modal.running => modal.completed = Len(modal.issued) - 1
                              \/ modal.pending = "token"
       /\ modal.syncError # None =>
             ~modal.running /\ ~modal.done /\ modal.pending = "none"
       /\ (~modal.running /\ modal.completed < Len(PushCalls)) =>
             modal.syncError # None

\* a call is made only when every call before it has returned and nothing
\* failed; after a failure no call is made; linkedSheetId changes only in the
\* step in which the formatting write returns
PushStep ==
    /\ (PushSession' /\ modal'.issued # modal.issued) =>
          /\ modal.syncError = None /\ modal'.syncError = None
          /\ modal'.completed = Len(modal.issued)
          /\ Len(modal'.issued) = Len(modal.issued) + 1
    /\ (PushSession /\ modal.syncError # None) =>
          /\ modal' = modal \/ modal'.phase = "closed"
          /\ budget' = budget
    /\ (PushSession /\ modal.running /\ ~modal'.running
          /\ modal'.completed = modal.completed) =>
          modal'.syncError # None
    /\ (modal.syncDirection = "push"
          /\ budget'.linkedSheetId # budget.linkedSheetId) =>
          /\ modal.pending = "formatting"
          /\ modal'.completed = Len(PushCalls)
          /\ modal'.syncError = None

\* C19: in a push the remote steps are issued in the order info fetch, clear,
\* write values, write formatting, each only after the one before returned
\* successfully; a failing step stops the run with syncError set and running
\* false; SET_LINKED_SHEET is dispatched only after the formatting write
\* succeeded, so a failed push leaves linkedSheetId as it was
C19_PushStepsInOrderFailStops == [](PushInOrder) /\ [][PushStep]_vars

\* the write of the values failed: three calls made, two returned, the run
\* over with an error and the budget still unlinked
C19_Witness ==
    /\ PushSession
    /\ modal.issued = <<"info", "clear", "values">>
    /\ modal.completed = 2
    /\ modal.syncError # None /\ ~modal.running
    /\ budget.linkedSheetId = None

\* the parsed budget under review is kept only by a pull that ended without
\* an error, and is marked applied only while it is kept
PullUnderReview ==
    PullSession =>
       /\ modal.pullChanges # None =>
             modal.done /\ ~modal.running /\ modal.syncError = None
       /\ modal.pullApplied => modal.pullChanges # None

\* the budget changes during a pull only in the step that applies the parsed
\* budget of a finished pull; a failed pull and a closed dialog leave it alone
PullStep ==
    /\ (modal.syncDirection = "pull" /\ budget' # budget) =>
          /\ PullSession /\ PullSession'
          /\ ~modal.running /\ modal.done /\ modal.syncError = None
          /\ modal.pullChanges # None
          /\ ~modal.pullApplied /\ modal'.pullApplied
          /\ budget'.sections = modal.pullChanges[1].updatedBudget.sections
    /\ (PullSession /\ modal.syncError # None) => budget' = budget
    /\ (PullSession /\ modal'.phase = "closed") => budget' = budget
    /\ (PullSession /\ pull' # pull) =>
          /\ budget' = budget
          /\ modal'.pullChanges # None =>
                modal'.pullChanges[1].updatedBudget = pull'.updatedBudget

\* C20: a pull never replaces the live budget by itself: the parsed
\* updatedBudget becomes the budget only through handleApplyPull, after a pull
\* that finished without error and on the user's choice; when the pull fails
\* or the user cancels, the live budget is unchanged
C20_PullAppliesOnlyOnRequest == [](PullUnderReview) /\ [][PullStep]_vars

\* the user applied a pull that found changes: the live budget now has the
\* sections parsed from the sheet
C20_Witness ==
    /\ PullSession /\ modal.pullApplied
    /\ modal.pullChanges # None
    /\ modal.pullChanges[1].changes # << >>
    /\ budget.sections = modal.pullChanges[1].updatedBudget.sections
    /\ budget.sections # << >>

(***************************************************************************)
(* Claims about the rows of the layout                                     *)
(***************************************************************************)
EntryTypeAt(e) ==
    IF e \in 1..Len(layout.rowLayout) THEN layout.rowLayout[e].type ELSE "none"

\* the entries after the section-header at place h: an auto-row or none (a),
\* the items of the section in order, a total or none (t), a separator
SectionBlock(h, a, t) ==
    LET k == layout.rowLayout[h].sec
        n == Len(Secs[k].items)
    IN /\ a = 1 <=> EntryTypeAt(h + 1) = "savings-auto"
       /\ a = 1 => layout.rowLayout[h + 1].sec = k
       /\ \A i \in 1..n :
             /\ EntryTypeAt(h + a + i) = "item"
             /\ layout.rowLayout[h + a + i].sec = k
             /\ layout.rowLayout[h + a + i].item = i
       /\ t = 1 <=> EntryTypeAt(h + a + n + 1) = "total"
       /\ t = 1 => layout.rowLayout[h + a + n + 1].sec = k
       /\ EntryTypeAt(h + a + n + t + 1) = "separator"

\* C28: the rowIndex values of rowLayout, in list order, are 1, 2, ..., N
\* without gap or duplicate; the first entry is the header at row 1; every
\* section-header is directly followed by the auto-row of its section (if
\* any), its items, its total (if any) and a separator
C28_RowsConsecutiveFromOne ==
    LayoutDone =>
       /\ \A e \in 1..Len(layout.rowLayout) : layout.rowLayout[e].rowIndex = e
       /\ layout.rowLayout[1].type = "header"
       /\ \A h \in EntriesOfType("section-header") :
             \E a \in {0, 1}, t \in {0, 1} : SectionBlock(h, a, t)

\* C28 witness: a section with an auto-row, an item and a total
C28_Witness ==
    /\ LayoutDone
    /\ \E h \in EntriesOfType("section-header") :
          /\ Secs[layout.rowLayout[h].sec].items # << >>
          /\ SectionBlock(h, 1, 1)

\* C25: the parser's replay of the current layout agrees with the writer:
\* buildLayoutCandidate(budget, {includeSectionHeaders: true,
\* includeGrandTotals: true}).itemRowMap has the keys of
\* buildRowLayout(budget).itemRowMap and the same row for every key
C25_CandidateAgreesWithWriter ==
    LayoutDone =>
       WithValue(buildLayoutCandidate(budget, TRUE, TRUE),
          LAMBDA map :
             /\ DOMAIN map = DOMAIN layout.itemRowMap
             /\ \A id \in DOMAIN map : map[id] = layout.itemRowMap[id])

\* C25 witness: a savings section with an auto-row above its own item, in a
\* budget whose summary section is not last
C25_Witness ==
    /\ LayoutDone
    /\ \E k \in 1..Len(Secs) :
          /\ Secs[k].type = "savings"
          /\ Secs[k].items # << >>
          /\ EntriesOf("savings-auto", k) # {}
    /\ \E k \in 1..(Len(Secs) - 1) : Secs[k].type = "summary"

(***************************************************************************)
(* Claims about the name-matching fallback                                 *)
(***************************************************************************)
NameParsed == Parsed /\ pull.strategy = "name" /\ ~pull.threw
\* the place of an entry of AllItems(budget) in section and item order
PlaceOf(e) == CHOOSE i \in 1..Len(AllItems(budget)) : AllItems(budget)[i] = e
\* the rows the map gives to the items before entry e
ClaimedBefore(map, e) ==
    {map[f.item.id] : f \in {g \in Range(AllItems(budget)) :
                                /\ PlaceOf(g) < PlaceOf(e)
                                /\ MapHas(map, g.item.id)}}
\* the usable rows that carry the name of entry e
RowsNamed(e) ==
    {r \in 1..Len(sheetRows) :
        /\ rowLabel(Some(sheetRows[r])) = e.item.name
        /\ IsPlausibleItemRow(Some(sheetRows[r]))}

\* C22: in the name-matching fallback each item other than a
\* savings-percentage item is mapped to the first not yet claimed usable row
\* whose trimmed label is the item's name; no row is given to two items, also
\* when items share a name; an item without a matching row is unchanged in
\* updatedBudget and has no change record
C22_NameMatchFirstUnclaimedRow ==
    NameParsed =>
       WithValue(buildNameMatchedRowMap(budget, sheetRows),
          LAMBDA map :
             /\ \A e \in Range(AllItems(budget)) :
                   LET free == RowsNamed(e) \ ClaimedBefore(map, e)
                   IN IF IsSkipped(budget, e) \/ free = {}
                      THEN /\ ~MapHas(map, e.item.id)
                           /\ UpdatedAt(e) = e.item
                           /\ \A i \in 1..Len(pull.changes) :
                                 pull.changes[i].itemId # e.item.id
                      ELSE /\ MapHas(map, e.item.id)
                           /\ map[e.item.id] \in free
                           /\ \A r \in free : map[e.item.id] <= r
                           /\ UpdatedAt(e).monthlyValues
                                 = [m \in Months |-> SheetValue(map[e.item.id], m)]
             /\ \A e, f \in Range(AllItems(budget)) :
                   (MapHas(map, e.item.id) /\ MapHas(map, f.item.id)
                      /\ map[e.item.id] = map[f.item.id]) => e = f)

\* C22 witness: two items of one name and a single row of that name: the
\* first item took the row and the second stayed as it was
C22_Witness ==
    /\ NameParsed
    /\ \E e, f \in Range(AllItems(budget)) :
          /\ PlaceOf(e) < PlaceOf(f)
          /\ e.item.name = f.item.name
          /\ Cardinality(RowsNamed(e)) = 1
          /\ UpdatedAt(e).monthlyValues = Fill(777)
          /\ UpdatedAt(f) = f.item

(***************************************************************************)
(* Claims about the budget of the marker rebuild                           *)
(***************************************************************************)
Rebuilt == Parsed /\ pull.strategy = "rebuild"
\* the items of updatedBudget as pairs <<section, place in the section>>
UPlaces ==
    {p \in (1..Len(USecs)) \X (1..(Len(sheetRows) + 1)) :
        p[2] <= Len(USecs[p[1]].items)}

\* C27: the budget returned by the marker rebuild is well formed for every
\* sheet with at least one section marker: section ids pairwise distinct,
\* item ids pairwise distinct over the whole budget, and exactly one
\* summary-type section, which is the last section
C27_RebuiltBudgetWellFormed ==
    Rebuilt =>
       /\ \A j, k \in 1..Len(USecs) : USecs[j].id = USecs[k].id => j = k
       /\ \A p, q \in UPlaces : UItemAt(p).id = UItemAt(q).id => p = q
       /\ {k \in 1..Len(USecs) : USecs[k].type = "summary"} = {Len(USecs)}

(***************************************************************************)
(* Claims about the calculator and the sheet                               *)
(***************************************************************************)
RECURSIVE SheetCellValue(_, _, _)
RECURSIVE SumOfTerms(_, _, _)
\* the sum of the referenced cells of a list of terms, each with its sign
SumOfTerms(rows, terms, i) ==
    IF i > Len(terms) THEN 0
    ELSE terms[i].sign * SheetCellValue(rows, terms[i].col, terms[i].row)
         + SumOfTerms(rows, terms, i + 1)

\* what the spreadsheet shows in the cell at column col of row r: a number
\* as it is, text and an empty cell as 0, a formula by its value
SheetCellValue(rows, col, r) ==
    IF r \notin 1..Len(rows) \/ col + 1 > Len(rows[r]) THEN 0
    ELSE LET cell == rows[r][col + 1]
             f == cell.f
             close == CHOOSE i \in 1..Len(f) : f[i].k = ")"
         IN CASE cell.t = "num" -> cell.n
              [] cell.t = "formula" /\ Len(f) = 4 /\ f[2].k = "*" ->
                    (SheetCellValue(rows, f[1].c, f[1].r) * f[3].n) \div 100
              [] cell.t = "formula" /\ f[1].k = "(" ->
                    SumOfTerms(rows, Terms(SubSeq(f, 2, close - 1), 1, 1, << >>), 1)
                    - SumOfTerms(rows,
                         Terms(SubSeq(f, close + 3, Len(f) - 1), 1, 1, << >>), 1)
              [] cell.t = "formula" ->
                    SumOfTerms(rows, Terms(f, 1, 1, << >>), 1)
              [] OTHER -> 0

\* C23: the calculator mirrors the written sheet: in every month the
\* remainingTotals of computeBudgetSummary equal the value of the remaining
\* row's formula over the written item values, and the computeSectionTotals
\* of each section equal the value of its total row
C23_CalculatorMirrorsSheet ==
    Written =>
       WithValue(computeBudgetSummary(Secs),
          LAMBDA summary :
             /\ \A e \in EntriesOfType("remaining") : \A m \in 1..NumMonths :
                   summary.remainingTotals[m]
                      = SheetCellValue(sheetRows, COL_JAN + m - 1,
                                       layout.rowLayout[e].rowIndex)
             /\ \A e \in EntriesOfType("total") : \A m \in 1..NumMonths :
                   computeSectionTotals(Secs[layout.rowLayout[e].sec],
                                        Some(Secs))[m]
                      = SheetCellValue(sheetRows, COL_JAN + m - 1,
                                       layout.rowLayout[e].rowIndex))

(***************************************************************************)
(* Claims about the empty change list                                      *)
(***************************************************************************)
\* the same sections with the same items: ids, names, notes, monthly values
SameContent(a, b) ==
    /\ Len(a) = Len(b)
    /\ \A k \in 1..Len(a) :
          /\ a[k].id = b[k].id /\ a[k].type = b[k].type /\ a[k].name = b[k].name
          /\ Len(a[k].items) = Len(b[k].items)
          /\ \A j \in 1..Len(a[k].items) :
                /\ a[k].items[j].id = b[k].items[j].id
                /\ a[k].items[j].name = b[k].items[j].name
                /\ a[k].items[j].note = b[k].items[j].note
                /\ a[k].items[j].monthlyValues = b[k].items[j].monthlyValues

\* C26: an empty change list means nothing changed: whenever parseSheetData
\* returns changes = [], the sections of updatedBudget equal the sections of
\* the budget (same names, notes and monthly values)
C26_NoChangesMeansSameSections ==
    (Parsed /\ pull.changes = << >>) => SameContent(USecs, Secs)

(***************************************************************************)
(* Claims about the strategy ladder                                        *)
(***************************************************************************)
SheetHasMarker == \E r \in 1..Len(sheetRows) : hasSectionMarker(Some(sheetRows[r]))
\* the strategy is read off the sheet in ladder order: the marker rebuild
\* when a row carries a section marker, else the first matching layout
\* candidate, else name matching
LadderOrder ==
    Parsed =>
       IF SheetHasMarker THEN pull.strategy = "rebuild"
       ELSE IF pickExactItemRowMap(budget, sheetRows) # None
            THEN pull.strategy = "exact"
            ELSE pull.strategy = "name"
\* the sheets with markers of the model: a pushed sheet, as written or with one
\* of its rows copied below the last row
MarkerSheets(b) ==
    WithValue(ProducedRows(b, "payload"),
       LAMBDA rows :
          {rows} \cup {Append(rows, rows[r]) :
                         r \in {q \in 1..Len(rows) : rows[q] # << >>}})
\* some budget and sheet with markers for which the marker-assisted item
\* mapping yields the row map the result is read with
MarkerMapReachable ==
    \E b \in PullBudgets({"expense", "savings"}, {0, 1, 2}, {"link", "twin"}, {}) :
       \E rows \in MarkerSheets(b) :
          /\ \E r \in 1..Len(rows) : hasSectionMarker(Some(rows[r]))
          /\ parseSheetData(b, rows, None).strategy = "marker-map"

C24_SavingsLinkStaysValid == LinksResolve(budget)

(***************************************************************************)
(* Claims about the undo history                                           *)
(***************************************************************************)
\* a step that recorded an action while the history was full
RecordedWhenFull ==
    /\ Len(history.past) = MAX_HISTORY
    /\ Len(history'.past) = MAX_HISTORY
    /\ <<budget, history>>' # <<budget, history>>
\* a successful UNDO
Undone ==
    /\ history' # history
    /\ history'.future = <<budget>> \o history.future

\* C21: the undo stack never holds more than 100 entries; an action recorded
\* when it holds 100 drops the oldest entry; every successful UNDO takes one
\* entry off, so at most 100 UNDOs in a row succeed
C21_HistoryCapped ==
    /\ [](Len(history.past) <= MAX_HISTORY)
    /\ [][/\ RecordedWhenFull =>
               history'.past = Append(Tail(history.past), budget)
          /\ Undone => /\ Len(history.past) >= 1
                       /\ Len(history'.past) = Len(history.past) - 1]_vars
C21_Witness ==
    /\ Len(history.past) = MAX_HISTORY
    /\ history.past[1] # UndoBudget
    /\ history.future = << >>

\* a successful UNDO or REDO: an entry went from one stack to the other
UndoneOrRedone ==
    /\ Len(history'.past) # Len(history.past)
    /\ Len(history'.past) + Len(history'.future)
          = Len(history.past) + Len(history.future)
    /\ Len(history'.future) # Len(history.future)

\* C29: what a transient action wrote is not part of the undo history and
\* survives undo and redo: an UNDO or a REDO leaves title, year and
\* linkedSheetId as they were
C29_TransientSurvivesUndo ==
    [][UndoneOrRedone =>
          /\ budget'.title = budget.title
          /\ budget'.year = budget.year
          /\ budget'.linkedSheetId = budget.linkedSheetId]_vars

=============================================================================
